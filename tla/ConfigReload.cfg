CONSTANTS
  Setting = {"repeat_rate", "panel_pos", "desktop_gaps"}
  Scripts <- MCScripts
  MaxRuns = 3
  MaxIdle = 2
  None = None
  Zero = Zero
SPECIFICATION Spec
CHECK_DEADLOCK FALSE
INVARIANTS FailedOnlyByWake NothingForgotten
PROPERTIES SettingArrives
