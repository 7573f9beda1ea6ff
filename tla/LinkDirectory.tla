---------------------------- MODULE LinkDirectory ----------------------------
(***************************************************************************)
(* What the URL shortener promises about short links, with no cache, no    *)
(* process and no failure in it: a directory from short codes to links.    *)
(* A link is published once and never changes; a visitor who asks for a    *)
(* code is answered from the directory.                                    *)
(*                                                                         *)
(* ShortLinks, the Postgres + Redis deployment, implements this module.    *)
(***************************************************************************)
EXTENDS Integers

CONSTANTS Codes,     \* short codes
          Urls,      \* destinations
          Expiries,  \* the expires_at times a client may ask for
          Reqs,      \* requests
          NoExpiry,  \* "no expires_at"
          NoRow      \* "nothing is published under this code"

VARIABLES now,    \* the clock
          links,  \* what is published: code -> link or NoRow
          asked   \* per request, the question and then its answer

vars == <<now, links, asked>>

Link == [url : Urls, exp : Expiries \cup {NoExpiry}]

Init == /\ now = 1
        /\ links = [c \in Codes |-> NoRow]
        /\ asked = [r \in Reqs |-> <<"no question">>]

Tick == /\ now' = now + 1
        /\ UNCHANGED <<links, asked>>

\* A code that is free gets a link; nothing else ever writes the directory.
Publish == \E c \in Codes, l \in Link :
             /\ links[c] = NoRow
             /\ links' = [links EXCEPT ![c] = l]
             /\ UNCHANGED <<now, asked>>

Ask == \E r \in Reqs, c \in Codes :
         /\ asked[r] = <<"no question">>
         /\ asked' = [asked EXCEPT ![r] = <<"waiting", c>>]
         /\ UNCHANGED <<now, links>>

\* The answers a visitor may get for c: the published link; "gone" once its
\* expiry has passed; "not found" only while nothing is published under c.
\* Failing, or never answering, is always possible.
Answers(c) ==
    IF links[c] = NoRow
    THEN {<<"not found">>, <<"failed">>}
    ELSE {<<"found", links[c].url>>, <<"failed">>}
           \cup {a \in {<<"gone">>} : links[c].exp # NoExpiry /\ now > links[c].exp}

Answer == \E r \in Reqs, c \in Codes :
            /\ asked[r] = <<"waiting", c>>
            /\ \E a \in Answers(c) : asked' = [asked EXCEPT ![r] = a]
            /\ UNCHANGED <<now, links>>

\* A crash of the server loses every question that is not answered yet.
Forget == /\ asked' = [r \in Reqs |-> IF asked[r][1] = "waiting"
                                       THEN <<"failed">> ELSE asked[r]]
          /\ UNCHANGED <<now, links>>

Next == Tick \/ Publish \/ Ask \/ Answer \/ Forget

Spec == Init /\ [][Next]_vars
=============================================================================
