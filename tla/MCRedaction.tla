----------------------------- MODULE MCRedaction -----------------------------
(* Small instances of Redaction.                                           *)
EXTENDS Redaction, TLC

CONSTANTS p1, p2, t1, t2, mail, key, c1, c2, f1, f2

\* One thread per profile, or two threads on one profile.
Apart == t1 :> p1 @@ t2 :> p2
Alone == t1 :> p1
Together == t1 :> p1 @@ t2 :> p1

\* Profiles and their threads can be told apart by their names alone.
Symmetry == {f \in Permutations({p1, p2, t1, t2}) :
    \A t \in {t1, t2} : f[t] \in {t1, t2} /\ f[Apart[t]] = Apart[f[t]]}

\* f1 holds both strings, f2 only the mail address.
HoldsBoth == f1 :> {mail, key} @@ f2 :> {mail}
MissesNone == f1 :> {} @@ f2 :> {}
MissesMail == f1 :> {} @@ f2 :> {mail}

Engines(pii, regex, keyword) ==
    "pii" :> pii @@ "regex" :> regex @@ "keyword" :> keyword

\* c1 redacts by the model and a keyword; c2 by keywords alone.
FindsMixed ==
    c1 :> Engines({mail}, {}, {key}) @@ c2 :> Engines({}, {}, {mail, key})
\* c1 and c2 have different keywords.
FindsKeywords == c1 :> Engines({}, {}, {mail}) @@ c2 :> Engines({}, {}, {key})
\* Both use the model; c2 has a threshold that the mail address does not reach.
FindsModel == c1 :> Engines({mail}, {}, {}) @@ c2 :> Engines({mail}, {}, {key})
\* c1 asks the model for both strings, once it is loaded; c2 has keywords.
FindsLate ==
    c1 :> Engines({mail, key}, {}, {key}) @@ c2 :> Engines({}, {}, {mail, key})

ConfidentAll == [c \in {c1, c2, None} |-> {mail, key}]
ConfidentLow == [c \in {c1, c2, None} |-> IF c = c2 THEN {} ELSE {mail, key}]

BodiesAll == {<<f1>>, <<f2>>, <<f2, f1>>}
BodiesOne == {<<f1>>, <<f2>>}
=============================================================================
