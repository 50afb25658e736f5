---------------------------- MODULE AddressBook ----------------------------
(***************************************************************************)
(* AddressBookMap (deployment/address_book.go): the contracts of an        *)
(* environment by chain and address.  A book maps every pair of a chain    *)
(* and an address to a type and version, or to None.  That a chain without *)
(* addresses may or may not have a map of its own is not kept: only the    *)
(* error of AddressesForChain tells the two apart.                         *)
(***************************************************************************)
CONSTANTS
  Family,    \* the family of every chain selector: "evm", "other" or "unknown"
  Addresses,
  EIP55,     \* the standard form of an address, or None: it is none of an EVM chain
  TVs,       \* types and versions
  EmptyType, \* those without a type
  None

Chains == DOMAIN Family

ASSUME AddressBookAssumption ==
  /\ Family \in [Chains -> {"evm", "other", "unknown"}]
  /\ EIP55 \in [Addresses -> Addresses \cup {None}]
  /\ \A a \in Addresses : EIP55[a] # None => EIP55[EIP55[a]] = EIP55[a]
  /\ EmptyType \subseteq TVs /\ None \notin TVs \cup Addresses

Places == Chains \X Addresses

Book == [Places -> TVs \cup {None}]

EmptyBook == [p \in Places |-> None]

Entries(b) == {p \in Places : b[p] # None}

Standard(p) == IF Family[p[1]] = "evm" THEN <<p[1], EIP55[p[2]]>> ELSE p

\* save accepts the entry, whatever the book holds.
Valid(p, tv) ==
  /\ Family[p[1]] # "unknown"
  /\ Family[p[1]] = "evm" => EIP55[p[2]] # None
  /\ tv \notin EmptyType

\* save succeeds.
CanSave(b, p, tv) == Valid(p, tv) /\ b[Standard(p)] = None

\* The book after the entries S of o have been saved.
Saved(b, o, S) ==
  [p \in Places |->
     IF \E q \in S : Standard(q) = p
       THEN o[CHOOSE q \in S : Standard(q) = p]
       ELSE b[p]]

\* All entries S of o can be saved, in any order.
AllSave(b, o, S) ==
  /\ \A q \in S : CanSave(b, q, o[q])
  /\ \A q, r \in S : Standard(q) = Standard(r) => q = r

\* The entries that Merge may have saved when it comes to q: the map iteration
\* takes the chains, and the addresses of a chain, in any order.
Before(o, q) ==
  {S \in SUBSET (Entries(o) \ {q}) :
     \A c \in Chains \ {q[1]} :
       {p \in S : p[1] = c} \in {{}, {p \in Entries(o) : p[1] = c}}}

\* The outcomes of Merge: it stops at the first entry that cannot be saved, and
\* the entries before it stay.
Merge(b, o) ==
  IF AllSave(b, o, Entries(o))
    THEN {[book |-> Saved(b, o, Entries(o)), ok |-> TRUE]}
    ELSE {[book |-> Saved(b, o, S), ok |-> FALSE] :
            S \in {T \in SUBSET Entries(o) :
                     /\ AllSave(b, o, T)
                     /\ \E q \in Entries(o) :
                          /\ T \in Before(o, q)
                          /\ ~CanSave(Saved(b, o, T), q, o[q])}}

\* Remove looks the addresses up as they are written.
CanRemove(b, o) == Entries(o) \subseteq Entries(b)

\* Mutant: the whole chain goes.
RemoveChains(b, o) ==
  [p \in Places |-> IF \E q \in Entries(o) : q[1] = p[1] THEN None ELSE b[p]]

Remove(b, o) == [p \in Places |-> IF o[p] # None THEN None ELSE b[p]]
=============================================================================
