---------------------- MODULE PartialFunctionTheorems ----------------------
(***************************************************************************)
(* What the operators of PartialFunctions return.                          *)
(***************************************************************************)
EXTENDS PartialFunctions, Integers, Sequences, TLAPS

(* A partial function is a function on a subset of its domain. *)
LEMMA PartialIsFunction ==
  ASSUME NEW S, NEW T, NEW f
  PROVE  f \in Partial(S, T) <=> DOMAIN f \subseteq S /\ f \in [DOMAIN f -> T]
BY DEF Partial

(* The empty sequence is the function that has nothing. *)
LEMMA EmptyPartial ==
  ASSUME NEW S, NEW T
  PROVE  /\ DOMAIN << >> = {}
         /\ << >> \in Partial(S, T)
         /\ \A f \in Partial(S, T) : DOMAIN f = {} => f = << >>
<1>1. DOMAIN << >> = {} /\ << >> \in [{} -> T]
  OBVIOUS
<1>2. \A f \in [{} -> T] : f = << >>
  OBVIOUS
<1> QED
  BY <1>1, <1>2, PartialIsFunction

(* Putting a value stays within the type. *)
LEMMA PuttingType ==
  ASSUME NEW S, NEW T, NEW f \in Partial(S, T), NEW x \in S, NEW y \in T
  PROVE  Put(f, x, y) \in Partial(S, T)
<1>1. DOMAIN f \subseteq S /\ f \in [DOMAIN f -> T]
  BY PartialIsFunction
<1>2. \A z \in DOMAIN f \cup {x} : (IF z = x THEN y ELSE f[z]) \in T
  BY <1>1
<1>3. Put(f, x, y) \in [DOMAIN f \cup {x} -> T]
  BY <1>2 DEF Put
<1> QED
  BY <1>1, <1>3, PartialIsFunction

(* Dropping a value stays within the type. *)
LEMMA DroppingType ==
  ASSUME NEW S, NEW T, NEW f \in Partial(S, T), NEW x
  PROVE  Drop(f, x) \in Partial(S, T)
<1>1. DOMAIN f \subseteq S /\ f \in [DOMAIN f -> T]
  BY PartialIsFunction
<1> QED
  BY <1>1, PartialIsFunction DEF Drop, Restrict
============================================================================
