SPECIFICATION SpecContainers
CONSTANTS
  a = a  b = b  Air = Air
  Items = {a, b}
  MaxStack <- MCStack
  Gear = 1 Main = 1 Hotbar = 1 MenuSize = 1 ShowsInventory = TRUE
  MaxId = 3
  Initial <- MCInitial
  Offers <- MCOffers
  Clicks <- MCClicks
  GameIn = {"update"} Retitles = FALSE Creative = FALSE
  MenuClicks = 2 MaxClicks = 6 MaxEdits = 1 MaxMenus = 2 Flight = 2
INVARIANTS Conserved Settled ClosedOnce
PROPERTY ClickInItsMenu
CHECK_DEADLOCK FALSE
