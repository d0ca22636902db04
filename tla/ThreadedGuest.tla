---------------------------- MODULE ThreadedGuest ----------------------------
(***************************************************************************)
(* The threaded engine on a guest that keeps the layout of its code: it    *)
(* may modify its instructions, but none ever becomes longer or shorter,   *)
(* and control only goes to where one starts.  The engine needs this rule, *)
(* because a write to bytes two translations share reaches one of them.    *)
(***************************************************************************)
EXTENDS Threaded

CONSTANT Size  \* Size[s]: the length of the instruction at s, 0 if there is
               \* never a valid opcode

Starts == DOMAIN Size

(* Instructions do not overlap or run past the end of memory, and behind   *)
(* one there is another, or a byte that is never an opcode.  None starts   *)
(* at the last address, whose number says that nobody owns a byte.         *)
ASSUME LayoutAssumption ==
    /\ Starts \subseteq Address \ {NO_OWNER}
    /\ Size \in [Starts -> 0 .. 3]
    /\ \A s \in Starts : Size[s] > 0 =>
           s + Size[s] <= MEMORY_SIZE /\ Advance(s, Size[s]) \in Starts
    /\ \A s, t \in Starts : s # t => Span(s, Size[s]) \cap Span(t, Size[t]) = {}

(* An opcode where an instruction starts has that instruction's length.    *)
FitsLayout(m) == \A s \in Starts : m[s] \in Valid => Length[m[s]] = Size[s]

(* The program is laid out so, writes leave it so, and control stays in it.*)
ASSUME GuestAssumption ==
    /\ Entry \in Starts /\ Targets \subseteq Starts
    /\ \A m \in Images : FitsLayout(m)
    /\ \A b \in Valid : \A w \in Stores[b] :
           w[1] \in Starts /\ w[2] \in Valid => Length[w[2]] = Size[w[1]]

(* No slot is left out and none is used twice as long as the cache, which  *)
(* is never flushed, has room.                                             *)
HasRoom == cacheLength < CODE_CACHE_CAPACITY
=============================================================================
