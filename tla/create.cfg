\* Bounds: two changes of the form, two other events, one template kept.
SPECIFICATION DialogSpec
CONSTANTS
  None = None
  a = a
  p = p
  Agents <- TwoAgents
  CapsOf <- Caps
  TagsOf <- AgentsTags
  Tags = {"eu"}
  Types <- TaskTypes
  Targets = {"casedUrl", "blank"}
  Pages <- SomePages
  Names = {"x", "y"}
  MaxTemplates = 1
  MaxListed = 1
  MaxRecents = 2
  MaxEdits = 2
  MaxEvents = 2
CHECK_DEADLOCK FALSE
INVARIANTS
  TemplatesReproduce
  RunsWhatWasShown
  
