\* Two handlers, a deletion, the janitor and the presence sweeper on an ID that
\* is used twice.  The requests together write every store but scratchpad and
\* files, which a request writes like the mailbox.
SPECIFICATION Spec
CONSTANTS
  r1 = r1
  r2 = r2
  Requests = {r1, r2}
  Deleters = {"deleter"}
  Janitor = "janitor"
  Ops = {"message", "poll"}
  Retention = 1
  Sweeping = TRUE
  MaxGens = 2
CHECK_DEADLOCK FALSE
SYMMETRY Symmetry
CONSTRAINT HandlersTogether
INVARIANTS TypeOK OwnDataOnly ClosedOnce
PROPERTY ReapsOnlyIdle
