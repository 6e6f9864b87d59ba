-------------------------- MODULE RecordSystemMC --------------------------
(* RecordSystem on small instances.                                        *)
EXTENDS RecordSystem, TLC

Symmetry == Permutations(Intents) \union Permutations(Names)

MCSpellings == {"p", "./p", "p/q", "../p"}
MCPaths == {"p", "p/q"}
MCNormalForm ==
  [s \in MCSpellings |-> CASE s = "../p" -> "PATH_TRAVERSAL" [] s = "./p" -> "p" [] OTHER -> s]
MCAbove == [p \in MCPaths |-> IF p = "p/q" THEN {"p"} ELSE {}]

Small(parts, events, failures, nesting) ==
  [parts |-> parts, events |-> events, faults |-> failures, nesting |-> nesting]

MCScopes ==
  {Small({"intents", "registry"}, 4, 1, FALSE),
   Small({"intents", "sessions"}, 6, 1, FALSE),
   Small({"intents", "sessions", "archive"}, 4, 0, TRUE),
   Small({"intents", "receipts"}, 6, 0, FALSE),
   Small({"intents", "captures", "receipts"}, 3, 1, TRUE),
   Small({"workspace"}, 3, 2, FALSE),
   Small({"workspace", "archive"}, 2, 2, FALSE),
   Small({"registry", "archive", "clock"}, 3, 1, FALSE),
   Small({"intents", "receipts", "archive"}, 3, 0, TRUE)}

===========================================================================
