SPECIFICATION Spec
CONSTANTS
  Agent = {a1, a2, a3}
  Type = {chat, whatsapp}
  Chat = chat
  None = None
  Txn = {t1, t2}
SYMMETRY Symmetry
INVARIANTS TypeOK
PROPERTIES NoResurrection ActivationHolds SerialCommands
