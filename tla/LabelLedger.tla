----------------------------- MODULE LabelLedger -----------------------------
(***************************************************************************)
(* What the redaction promises to whoever reads the answers of a provider:   *)
(* a ledger that only grows says what each label that went out stands for,   *)
(* every label in it is below a counter that survives the engine, and this   *)
(* counter never goes back.  Sessions, caches, configurations, threads,      *)
(* restarts and the file itself are no part of it.                           *)
(***************************************************************************)
EXTENDS Naturals

CONSTANTS Profiles, Kinds, Entities

VARIABLES
    sent,       \* what each label that went upstream stood for
    counted     \* the counters a restart would go on from

vars == <<sent, counted>>

Meaning == [prof : Profiles, lab : Kinds \X Nat, ent : Entities]
Counters == [Profiles -> [Kinds -> Nat]]

Init ==
    /\ sent = {}
    /\ counted = [p \in Profiles |-> [k \in Kinds |-> 0]]

\* Labels are reserved before they are used.
Reserve ==
    /\ counted' \in Counters
    /\ \A p \in Profiles, k \in Kinds : counted[p][k] <= counted'[p][k]
    /\ UNCHANGED sent

Reserved(s) == s.lab[2] < counted[s.prof][s.lab[1]]
Unambiguous(m) == \A a, b \in m : a.prof = b.prof /\ a.lab = b.lab => a.ent = b.ent

\* A body goes out: it may repeat what is in the ledger, and add to it.
Forward ==
    /\ sent' \subseteq Meaning
    /\ sent \subseteq sent'
    /\ \A s \in sent' : Reserved(s)
    /\ Unambiguous(sent')
    /\ UNCHANGED counted

Next == Reserve \/ Forward

Spec == Init /\ [][Next]_vars
=============================================================================
