SPECIFICATION FairAuthSpec
CONSTANTS
  Callers = {loop, handler}
  Handlers = {handler}
  Life = 4
  Claim = 1
  Margin = 1
  Patience = 1
  Upsets = 1
  MaxClock = 4
  None = None
  Same = Same
 
PROPERTY Renewed
