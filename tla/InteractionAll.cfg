SPECIFICATION Spec
CONSTANTS
  None = None
  root = root
  nav = nav
  home = home
  screen = screen
  button = button
  next = next
  dialog = dialog
  select = select
  Widgets <- MCWidgets
  Parent <- MCParent
  Kind <- MCKind
  Rank <- MCRank
  Root = root
  Nav = nav
  Screens = {screen, next}
  Modal = dialog
  Removable = {button}
INVARIANTS
  PressIsCaptured
  OpenIsListed
  
PROPERTIES
  ReleaseEndsPress
  FocusStaysAlive
  InputStaysInside
