-------------------------- MODULE MCAutomaticQueue --------------------------
(* Finite instances of AutomaticQueue for TLC. *)
EXTENDS AutomaticQueue

Plain   == [trigger |-> "automatic", priority |-> 0, debounce |-> 0]
Delayed == [trigger |-> "automatic", priority |-> 1, debounce |-> 1]
ByHand  == [trigger |-> "manual", priority |-> 0, debounce |-> 0]

MixedPolicies == {Plain, Delayed, ByHand}
OnlyPlain == {Plain}
AllPlain == [c \in Cells |-> Plain]

\* One cell each, and everything at once.
OneOrAll == {{c} : c \in Cells} \cup {Cells}
\* Only the whole tree.
All == {Cells}
=============================================================================
