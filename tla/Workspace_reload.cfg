CONSTANTS
  App = {chat, wallet, notes}
  Manager = package_manager_ui
  Address = {1, 2, 3, 4, 5}
  MaxToggles = 2
  ManagerStays = FALSE
SYMMETRY Symmetric
SPECIFICATION Spec
INVARIANTS
  SectionIsShown
