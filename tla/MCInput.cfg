SPECIFICATION Spec
CONSTANTS
  Keys = {"space"}
  Pads = {p1}
  PadButtons = {"a", "up"}
  Hats = {"up"}
  Full = 2
  Buttons = {"jump", "interact", "shield"}
  KeyButton <- MCKeyButton
  PadButton <- MCPadButton
  Virtual = "shield"
  Order <- MCOrder
  MaxListeners = 2
INVARIANTS
  OnlyOrphansStick
  EdgesAreInInput
