------------------------------ MODULE Automata ------------------------------
(***************************************************************************)
(* What the two halves of regex.c share: the characters and the states of  *)
(* an automaton.  A state has a code (a character, or what is done there), *)
(* the class of a CHRCLS, and the states it leads to; 0 stands for NULL.   *)
(***************************************************************************)
EXTENDS Integers, Sequences

\* The characters in use, in the order of their codes.
Ascii == << "\t", "\n", " ", "!", "(", ")", "*", "+", "-", ".", "/", "0", "1", "9",
            "?", "A", "B", "N", "Z", "[", "\\", "]", "^", "_", "a", "b", "c", "d",
            "n", "s", "w", "z", "|" >>
Char == {Ascii[i] : i \in DOMAIN Ascii}
Code == [c \in Char |-> CHOOSE i \in DOMAIN Ascii : Ascii[i] = c]

NUL == "NUL"     \* what ends a string

\* What c of a state may be, besides a character.
SPLIT == "SPLIT"
MATCH == "MATCH"
NONE == "NONE"
CHRCLS == "CHRCLS"
ANY == "ANY"

\* What rgx_compile makes of a pattern: a state leads where its code lets it lead,
\* and the first term of a pattern begins with a blank (regex.c:202, 228).
IsAutomaton(regex) ==
  /\ regex.states \in Seq({regex.states[s] : s \in DOMAIN regex.states})
  /\ regex.start \in DOMAIN regex.states
  /\ \A s \in DOMAIN regex.states :
       LET st == regex.states[s]
       IN  /\ st.c \in {SPLIT, NONE, CHRCLS, ANY, MATCH} \cup Char
           /\ st.out \in DOMAIN regex.states <=> st.c # MATCH
           /\ st.out_alt \in DOMAIN regex.states <=> st.c = SPLIT
  /\ \E s \in DOMAIN regex.states : regex.states[s].c = NONE
=============================================================================
