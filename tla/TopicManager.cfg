\* Failed CreateTopic and Produce calls, crashes, restarts
\* that skip a topic or leave partitions out, and a hidden topic.
CONSTANTS
  Topics = {t, h}
  Hidden = {h}
  Counts = {2, 3}
  Keys = {5}
  NoKey = NoKey
  Faults = {"crash", "create", "readdir", "open", "append"}
  MaxProduces = 3
SPECIFICATION Spec
INVARIANTS TypeOK AckedConsumable SameKeySameLog
