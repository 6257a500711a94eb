SPECIFICATION FairSpec
CONSTANTS
  MaxSize = 2
  Line <- Boots
  MaxFetch = 2
  Scenarios <- AllScenarios
INVARIANTS TuiTypeOK NoGap KeysFollowFocus PanelsFit WidgetsFit ColumnsFit
PROPERTIES LineShown TailResumes TablesFollow DraftKept LayoutForgets
CHECK_DEADLOCK FALSE
