----------------------------- MODULE VectorStore -----------------------------
(***************************************************************************)
(* What openfpm::vector promises, whatever it allocates: each object is a  *)
(* sequence.  An operation changes the sequence of its own object only,    *)
(* and a growth changes none.  What it does not promise is the value of an *)
(* element nobody has written: a vector that gets longer shows in its new  *)
(* places whatever the memory held.                                        *)
(*                                                                         *)
(* An object that was moved from by an assignment is not known: it         *)
(* promises nothing until it is resized, assigned or constructed again.    *)
(***************************************************************************)
EXTENDS Integers, Sequences, FiniteSets

CONSTANT Obj        \* the vectors of the program

VARIABLES
    seq,            \* what each vector holds
    known           \* the vectors that promise it

vars == <<seq, known>>

-----------------------------------------------------------------------------

\* s and t agree on their first n elements.
AgreeTo(s, t, n) == \A i \in 1 .. n : s[i] = t[i]

Shorter(s, t) == IF Len(s) < Len(t) THEN Len(s) ELSE Len(t)

\* s without the elements at the positions K, the others in their order.
Keeping(s, K) ==
    [i \in 1 .. Len(s) - Cardinality(K) |->
       s[CHOOSE k \in DOMAIN s \ K : k - Cardinality({r \in K : r < k}) = i]]

\* Only o changes.
OnlyChanges(o) == \A p \in Obj \ {o} : seq'[p] = seq[p]

\* o is known from now on if p is.
KnownAs(o, p) == IF p \in known THEN known \union {o} ELSE known \ {o}

Init ==
    /\ seq = [o \in Obj |-> <<>>]
    /\ known = Obj

\* vector(n): the elements are not initialised.
Construct(o, n) ==
    /\ Len(seq'[o]) = n /\ OnlyChanges(o)
    /\ known' = known \union {o}

\* The elements both lengths have stay.
Resize(o, n) ==
    /\ Len(seq'[o]) = n /\ OnlyChanges(o)
    /\ o \in known => AgreeTo(seq[o], seq'[o], Shorter(seq[o], seq'[o]))
    /\ known' = known \union {o}

\* One element more, in the place k; those before and after it stay.
Insert(o, k) ==
    /\ o \in known /\ Len(seq'[o]) = Len(seq[o]) + 1 /\ OnlyChanges(o)
    /\ \A i \in 1 .. Len(seq[o]) :
         seq[o][i] = IF i < k THEN seq'[o][i] ELSE seq'[o][i + 1]
    /\ UNCHANGED known

Append1(o, e) ==
    /\ o \in known
    /\ seq' = [seq EXCEPT ![o] = Append(seq[o], e)]
    /\ UNCHANGED known

Concat(o, p) ==
    /\ {o, p} \subseteq known
    /\ seq' = [seq EXCEPT ![o] = seq[o] \o seq[p]]
    /\ UNCHANGED known

RemoveAll(o, K) ==
    /\ o \in known
    /\ seq' = [seq EXCEPT ![o] = Keeping(seq[o], K)]
    /\ UNCHANGED known

Set(o, k, e) ==
    /\ o \in known
    /\ seq' = [seq EXCEPT ![o] = [seq[o] EXCEPT ![k] = e]]
    /\ UNCHANGED known

Copy(o, p) ==
    /\ p \in known
    /\ seq' = [seq EXCEPT ![o] = seq[p]]
    /\ known' = known \union {o}

Swap(o, p) ==
    /\ seq' = [seq EXCEPT ![o] = seq[p], ![p] = seq[o]]
    /\ known' = {q \in Obj : IF q = o THEN p \in known
                              ELSE IF q = p THEN o \in known
                              ELSE q \in known}

\* o takes what p held, and p is empty.
Take(o, p) ==
    /\ o # p
    /\ seq' = [seq EXCEPT ![o] = seq[p], ![p] = <<>>]
    /\ known' = KnownAs(o, p) \union {p}

\* o takes what p held, and p promises nothing any more.
Rob(o, p) ==
    /\ o # p
    /\ seq' = [seq EXCEPT ![o] = seq[p], ![p] = <<>>]
    /\ known' = KnownAs(o, p) \ {p}

Next ==
    \E o \in Obj :
        \/ \E n \in {Len(seq'[o])} : Construct(o, n) \/ Resize(o, n)
        \/ \E k \in 1 .. Len(seq[o]) + 1 : Insert(o, k)
        \/ \E e \in {seq'[o][k] : k \in DOMAIN seq'[o]} :
             Append1(o, e) \/ \E k \in DOMAIN seq[o] : Set(o, k, e)
        \/ \E K \in SUBSET DOMAIN seq[o] : RemoveAll(o, K)
        \/ \E p \in Obj : Concat(o, p) \/ Copy(o, p) \/ Swap(o, p) \/ Take(o, p) \/ Rob(o, p)

Spec == Init /\ [][Next]_vars

=============================================================================
