------------------------------ MODULE MCFetch ------------------------------
(* Small instances of Fetch.                                               *)
EXTENDS Fetch, TLC

Some   == {"a", "b", "c", "d"}
Kinds  == [u \in Some |-> CASE u = "a" -> "http" [] u = "d" -> "data" [] OTHER -> "https"]
Ports  == {"c"}
Route  == {"b"}

Ask(m, u, b, r, k, t) ==
  [method |-> m, url |-> u, body |-> b, redirect |-> r, integrity |-> k, auto |-> t]

\* Every method and mode, the digest that matches, the one that does not, and a coded body
\* that is passed on as it is.
Asks == { Ask("POST", "a", TRUE, "follow", "none", TRUE),
          Ask("PUT", "b", TRUE, "follow", "match", TRUE),
          Ask("GET", "a", FALSE, "follow", "mismatch", TRUE),
          Ask("HEAD", "b", FALSE, "follow", "match", TRUE),
          Ask("GET", "a", FALSE, "manual", "none", FALSE),
          Ask("GET", "b", FALSE, "error", "match", FALSE),
          Ask("GET", "c", FALSE, "follow", "none", TRUE),
          Ask("GET", "d", FALSE, "follow", "none", TRUE),
          Ask("POST", "d", TRUE, "follow", "match", TRUE) }

\* Three symbols, the last of which is a trailer; the second one fills more than a chunk.
Coded == <<1, 4, 4>>
\* No limit, and one that the coded body goes beyond.
Bounds == {0, 3}

=============================================================================
