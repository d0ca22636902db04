----------------------------- MODULE BlockGuest -----------------------------
(***************************************************************************)
(* The block engine on guest programs that modify their code only where    *)
(* the engine notices: code that is written to belongs to one block, which *)
(* is not the one that writes, and nothing is pushed into code.            *)
(***************************************************************************)
EXTENDS Block

CONSTANT Programs
    (* The programs.  Of each program p,                                   *)
    (*   p.memories    is what memory may become                           *)
    (*   p.ops         are the opcodes memory may hold                     *)
    (*   p.starts      are the addresses the dispatcher may come to        *)
    (*   p.members[a]  are the addresses of the instructions of the block  *)
    (*                 at a, up to the one that ends it                    *)
    (*   p.place[a][s] is at which place s may be in the block at a, if no   *)
    (*                 block of p is long                                    *)

\* The instruction at s is translated as a part of a block, or ends one.
Inside(m, s) == CanPrecode(m, s) /\ Flow[m[s]] = "next"
Ends(m, s) == m[s] \in Valid /\ Flow[m[s]] # "next"

\* The byte at x may belong to the translated part of the block at a.
InCode(p, a, x) ==
    \E m \in p.memories : \E s \in p.members[a] :
        Inside(m, s) /\ x \in Span(s, Length[m[s]])

\* The last address is no start: its number says that nobody owns a byte.
ProgramType(p) ==
    /\ p.memories \subseteq [Address -> Byte]
    /\ p.starts \subseteq Address \ {NO_OWNER}
    /\ p.members \in [p.starts -> SUBSET Address]
    /\ \A m \in p.memories : \A a \in Address : m[a] \in Valid => m[a] \in p.ops
    /\ p.ops \subseteq Valid

(* The starts and the members take in all that control can reach, and a    *)
(* block that is not empty ends at a branch or jump: what is behind one of *)
(* its instructions never fails to be precoded.                            *)
FollowsControl(p) ==
    /\ Entry \in p.starts /\ Targets \subseteq p.starts
    /\ \A m \in p.memories, a \in p.starts :
           /\ a \in p.members[a]
           /\ Ends(m, a) /\ Flow[m[a]] = "branch" => Advance(a, Length[m[a]]) \in p.starts
           /\ \A s \in p.members[a] :
                  /\ Ends(m, s) => s \in p.starts
                  /\ Inside(m, s) =>
                         LET next == Advance(s, Length[m[s]])
                         IN  /\ next \in p.members[a]
                             /\ Ends(m, next) \/ CanPrecode(m, next)

(* Writes leave it the same program, and what they write to is no code, or *)
(* code of one block, which is not the writer's, and not pushed.           *)
WritesElsewhere(p) ==
    \A b \in p.ops : \A w \in Stores[b] :
        /\ \A m \in p.memories : [m EXCEPT ![w[1]] = w[2]] \in p.memories
        /\ \A a \in p.starts : InCode(p, a, w[1]) =>
               /\ Flow[b] = "next"
               /\ \A m \in p.memories : \A s \in p.members[a] : m[s] # b
               /\ \A c \in p.starts : InCode(p, c, w[1]) => c = a

ASSUME ProgramsAssumption ==
    /\ \A m \in Images : \E p \in Programs : m \in p.memories
    /\ \A p \in Programs : ProgramType(p) /\ FollowsControl(p) /\ WritesElsewhere(p)

-----------------------------------------------------------------------------
(* Every block of the program ends after less than RESERVE instructions:   *)
(* from each of them to the next its place in the block grows.             *)
Short(p) ==
    /\ p.place \in [p.starts -> [Address -> 0 .. RESERVE - 1]]
    /\ \A m \in p.memories : \A a \in p.starts : \A s \in p.members[a] :
           Inside(m, s) => p.place[a][s] < p.place[a][Advance(s, Length[m[s]])]

RunsShort == \E p \in Programs : Short(p) /\ memory \in p.memories

(* With such a program the arena never wraps, however often the program    *)
(* makes the engine translate its blocks again: what precode_block keeps   *)
(* free is enough for each of them.                                        *)
ShortBlocksFit == RunsShort => []ArenaFits
=============================================================================
