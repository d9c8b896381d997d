SPECIFICATION Spec
CONSTANT Nil = Nil
CHECK_DEADLOCK FALSE
INVARIANTS
  MonitorSound
  DescriptorsSound
  UrbsSound
  DarwinSound
  HandlesSound
  WindowsSound
PROPERTY StepsSound
