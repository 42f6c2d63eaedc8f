CONSTANTS
  c1 = c1  c2 = c2  l1 = l1  l2 = l2  w1 = w1  w2 = w2
  x1 = x1  x2 = x2  g1 = g1  g2 = g2
  Calls = {c1, c2}
  MaxTokens = 4
  MaxActs = 4
  Kinds = {"contracts", "matters", "documents", "tasks", "comments",
           "members", "webhooks", "admin", "audit", "search", "matter"}
  Rows = {x1, x2}
  Groups = {g1, g2}
  Loads = {l1, l2}
  Writes = {w1, w2}
SPECIFICATION WebSpec
SYMMETRY Symmetry
INVARIANTS LogoutHolds StaysLoggedIn ShowsWhatWasAsked DeletedStaysAway
CHECK_DEADLOCK FALSE
