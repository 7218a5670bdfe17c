----------------------------- MODULE MCWorker -----------------------------
(* Worker and Verbs on small instances: a good request of every kind, and  *)
(* for every check one that fails it.                                      *)
EXTENDS Verbs, TLC

Good(route, args) ==
    [route |-> route, token |-> TRUE, post |-> TRUE, body |-> "good",
     valid |-> TRUE, args |-> args]

GoodShapes ==
    {Good("exec", "small"), Good("shell", "large"),
     Good("upload", "small"), Good("download", "small")}

BadShapes ==
    {[Good("info", "small") EXCEPT !.post = FALSE],
     Good("other", "small"),
     [Good("exec", "small") EXCEPT !.token = FALSE],
     [Good("exec", "small") EXCEPT !.valid = FALSE],
     [Good("shell", "large") EXCEPT !.post = FALSE],
     [Good("ls", "small") EXCEPT !.body = "bad"],
     [Good("edit", "small") EXCEPT !.body = "big"],
     [Good("upload", "small") EXCEPT !.body = "big"],
     Good("exec", "blank"), Good("shell", "unsupported")}

AllShapes == GoodShapes \cup BadShapes

\* no authentication, the token file, and one that is blank
AllAuths ==
    {[noAuth |-> TRUE, flag |-> FALSE, file |-> "unreadable"],
     [noAuth |-> FALSE, flag |-> FALSE, file |-> "token"],
     [noAuth |-> FALSE, flag |-> FALSE, file |-> "blank"]}

Symmetry == Permutations(Reqs)
===========================================================================
