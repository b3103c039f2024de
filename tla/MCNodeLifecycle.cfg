CONSTANTS
  n1 = n1  pub = pub  sub = sub
  node = node  older = older
  Nodes = {n1}
  Listeners = {pub, sub}
  MaxFailures = 3
  Peers = {node, older}
  Announced <- MCAnnounced
  Texts <- MCTexts
  Nothing = Nothing
SPECIFICATION FairNamesSpec
INVARIANTS TypeOK CallbacksAreSafe WholeOrGone NamesAreOfPeers
PROPERTY DestructionCompletes
CHECK_DEADLOCK FALSE
