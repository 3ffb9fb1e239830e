-------------------------- MODULE MCAdminSessions --------------------------
(* Two browsers, two callbacks under way at a time, two GitHub users one   *)
(* of whom may be listed, and servers with one of two secrets or none.     *)
EXTENDS AdminSessions, TLC

CONSTANTS b1, b2, c1, c2, s1, s2

MCLogins == {"Ann", "Bob"}
MCLower == [l \in MCLogins |-> IF l = "Ann" THEN "ann" ELSE "bob"]

MCConfig(secret, oauth, token, users) ==
    [sessionSigningSecret |-> secret, oauth |-> oauth, adminToken |-> token,
     adminGithubUsers |-> users, sessionTtl |-> 1]

\* Everything set up; another secret; no OAuth client; no list; no secret; nothing.
MCConfigs ==
    {MCConfig(s1, TRUE, TRUE, {"ann"}), MCConfig(s2, TRUE, FALSE, {"ann"}),
     MCConfig(s1, FALSE, FALSE, {"ann"}), MCConfig(s1, TRUE, FALSE, {}),
     MCConfig(None, TRUE, TRUE, {"ann"}), MCConfig(None, FALSE, FALSE, {})}

Symmetry == Permutations(Browsers) \cup Permutations(Callbacks)
=============================================================================
