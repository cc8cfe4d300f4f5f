------------------------------- MODULE Egress -------------------------------
(***************************************************************************)
(* The hardened dialer (plane/internal/egress), the only way a call leaves *)
(* the cluster: one call to one hosted upstream.                           *)
(*                                                                         *)
(* The resolver's answer may be another at every lookup; every answer of   *)
(* one lookup is vetted and a vetted one is dialed, the connection is      *)
(* never reused.  The body is read in chunks under a cap and a lifetime.   *)
(* The upstream sends length bytes, unless the lifetime ends first: then   *)
(* the transport reports an error or, on a body that only the connection's *)
(* end delimits, an end that looks clean.                                  *)
(***************************************************************************)
EXTENDS Table

CONSTANTS
  DnsAnswers,  \* what the resolver may answer: sets of addresses
  Lengths,     \* bodies the upstream may send
  Chunks,      \* how many bytes one read may give
  MaxResponseBytes, BufferSize

ASSUME EgressAssumption ==
  /\ \A s \in DnsAnswers : s \subseteq Address
  /\ Lengths \subseteq Nat /\ Chunks \subseteq Nat \ {0} /\ BufferSize \in Nat \ {0}
  /\ MaxResponseBytes \in Nat \ {0} /\ {1} \subseteq Chunks

VARIABLES
  phase,   \* "idle", "dial", "header", "body", "closed"
  answers, \* vetted, not tried yet
  dialed,  \* the address the connection is to, None before (history)
  server,  \* bytes the upstream has still to send
  length,  \* bytes it sends in all (history)
  got,     \* bytes the caller has been given
  left,    \* bytes of the cap
  expired, \* the lifetime is over
  peek,    \* the read that reached the cap and has one byte more to ask for
  blank,   \* asking for it was answered by nothing, and no error (history)
  result   \* what the last read said: "unread", "more", "eof", "toolarge", "lifetime", "error"

evars == <<phase, answers, dialed, server, length, got, left, expired, peek, blank, result>>

EgressInit ==
  /\ phase = "idle" /\ answers = {} /\ dialed = None
  /\ server = 0 /\ length = 0 /\ got = 0 /\ left = 0 /\ expired = FALSE /\ peek = FALSE /\ blank = FALSE /\ result = "unread"

-----------------------------------------------------------------------------
(* RoundTrip and DialContext. *)

\* https, port 443, a host the table names.
Permitted(url, hosts) == url.scheme = "https" /\ url.port \in {"", "443"} /\ url.host \in hosts

\* Fault: one good address is enough.
VettedSome(found) == \E a \in found : ~Refused(a)

Vetted(found) == found # {} /\ \A a \in found : ~Refused(a)

\* The lookup and its vetting: a literal is its own answer.
Begin(url, hosts) ==
  /\ phase = "idle" /\ Permitted(url, hosts)
  /\ \E found \in IF url.host.addr # None THEN {{url.host.addr}} ELSE DnsAnswers :
       Vetted(found) /\ answers' = found
  /\ phase' = "dial" /\ left' = MaxResponseBytes
  /\ UNCHANGED <<dialed, server, length, got, expired, peek, blank, result>>

\* The address that was checked is the one that is dialed; the next if it
\* does not answer, and the call fails with the last.
Connect ==
  /\ phase = "dial"
  /\ \E a \in answers :
       \/ /\ dialed' = a /\ phase' = "header" /\ UNCHANGED answers
       \/ /\ answers' = answers \ {a} /\ UNCHANGED dialed
          /\ phase' = IF answers = {a} THEN "closed" ELSE "dial"
  /\ UNCHANGED <<server, length, got, left, expired, peek, blank, result>>

Header ==
  /\ phase = "header"
  /\ \/ /\ phase' = "body"
        /\ length' \in Lengths /\ server' = length'
     \/ phase' = "closed" /\ UNCHANGED <<length, server>>
  /\ UNCHANGED <<answers, dialed, got, left, expired, peek, blank, result>>

\* The lifetime covers the whole exchange; before the body it fails the call.
Expire ==
  /\ phase \in {"dial", "header", "body"} /\ ~expired
  /\ expired' = TRUE
  /\ phase' = IF phase = "body" THEN "body" ELSE "closed"
  /\ UNCHANGED <<answers, dialed, server, length, got, left, peek, blank, result>>

-----------------------------------------------------------------------------
(* boundedBody.Read. *)

\* What the transport may say at the end of n bytes, none included: nothing
\* yet, an error, the end, or an end that is the deadline's doing.
Says(n) == {"more", "error"} \cup IF server = n \/ expired THEN {"eof"} ELSE {}

Reading == phase = "body" /\ result \in {"unread", "more"}

\* An end or an error after the deadline is the deadline's.
Outcome(said) == IF said # "more" /\ expired THEN "lifetime" ELSE said

Least(a, b) == IF a < b THEN a ELSE b

Read ==
  /\ Reading /\ ~peek /\ left > 0
  /\ \E n \in Chunks \cup {0}, said \in {"more", "eof", "error"} :
       /\ n <= Least(Least(server, left), BufferSize) /\ said \in Says(n)
       /\ got' = got + n /\ server' = server - n /\ left' = left - n
       /\ IF said = "more" /\ left' = 0
          THEN peek' = TRUE /\ UNCHANGED result
          ELSE result' = Outcome(said) /\ UNCHANGED peek
  /\ UNCHANGED <<phase, answers, dialed, length, expired, blank>>

\* At the cap: one byte more, or an end that must not be the deadline's; no
\* byte and no error is taken for the end.
Peek ==
  /\ Reading /\ peek
  /\ \/ /\ server > 0
        /\ server' = server - 1 /\ result' = "toolarge" /\ UNCHANGED blank
     \/ \E said \in Says(0) :
          /\ result' = Outcome(IF said = "more" THEN "eof" ELSE said)
          /\ blank' = (said = "more") /\ UNCHANGED server
  /\ peek' = FALSE
  /\ UNCHANGED <<phase, answers, dialed, length, got, left, expired>>

\* The caller has what it came for, or gives up, and closes.
Close ==
  /\ phase = "body" /\ ~peek
  /\ phase' = "closed"
  /\ UNCHANGED <<answers, dialed, server, length, got, left, expired, peek, blank, result>>

EgressStep == Connect \/ Header \/ Expire \/ Read \/ Peek \/ Close

-----------------------------------------------------------------------------
ETypeOK ==
  /\ phase \in {"idle", "dial", "header", "body", "closed"}
  /\ answers \subseteq Address /\ dialed \in Address \cup {None}
  /\ {server, length, got, left} \subseteq Nat
  /\ expired \in BOOLEAN /\ peek \in BOOLEAN /\ blank \in BOOLEAN
  /\ result \in {"unread", "more", "eof", "toolarge", "lifetime", "error"}

\* A connection only ever goes to an address that is public by every form it
\* may be written in, whatever the name resolves to at each lookup (DialContext).
NeverDialsRefused == dialed # None => ~Refused(dialed)

\* A body that was cut, by its size or by its time, does not end cleanly: a
\* caller told "eof" has every byte, and no more than the cap, but where the
\* one read past a full cap was answered by nothing (boundedBody).  By its
\* time it never does, that read included.
CutIsNeverClean ==
  result = "eof" => /\ got <= MaxResponseBytes
                    /\ got = length \/ (blank /\ got = MaxResponseBytes)
=============================================================================
