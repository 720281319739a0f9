SPECIFICATION Spec
CONSTANTS
  Flashes <- MCFlashes
  Edits <- MCEdits
INVARIANTS TypeOK SettingsSurvive
PROPERTY ImplementsStore
