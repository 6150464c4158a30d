--------------------------- MODULE AddressSpaces ----------------------------
(***************************************************************************)
(* What page tables promise.  A page that is given to a process has a      *)
(* frame that no process uses, except for what a new process inherits from *)
(* its father: it sees those frames at the same pages.  A process keeps    *)
(* all of its pages until it ends, and nobody is left with a frame of a    *)
(* process that ended.                                                     *)
(***************************************************************************)

CONSTANTS Process, Page, Frame

VARIABLE mappings

Mapping == [process : Process, page : Page, frame : Frame, inherited : BOOLEAN]

FramesOf(set) == {m.frame : m \in set}
OwnersOf(set) == {m.process : m \in set}

\* A frame in set is at one page of one process, inherited ones apart.
Apart(set) ==
    \A m, n \in {m \in set : ~m.inherited} : m.frame = n.frame => m = n

Init == mappings \subseteq Mapping /\ Apart(mappings)

\* p gets the pages in given: each a fresh frame, or the one its father has
\* there if p is new.
Give(given) ==
    /\ given # {} /\ given \subseteq Mapping /\ Apart(given)
    /\ \E p \in OwnersOf(given) :
         LET before == {m \in mappings : m.process = p}
         IN  /\ OwnersOf(given) = {p}
             /\ {m.page : m \in given} \cap {m.page : m \in before} = {}
             /\ FramesOf({m \in given : ~m.inherited}) \cap FramesOf(mappings) = {}
             /\ \E father \in Process : \A m \in {m \in given : m.inherited} :
                  before = {} /\ \E f \in mappings :
                    f.process = father /\ f.page = m.page /\ f.frame = m.frame

\* The processes that end lose all they have, and with it what others
\* inherited from them.
End(taken) ==
    /\ taken # {}
    /\ OwnersOf(taken) \cap OwnersOf(mappings') = {}
    /\ FramesOf({m \in taken : ~m.inherited}) \cap FramesOf(mappings') = {}

Next ==
    LET given == mappings' \ mappings
        taken == mappings \ mappings'
    IN  \/ taken = {} /\ Give(given)
        \/ given = {} /\ End(taken)

Spec == Init /\ [][Next]_mappings

=============================================================================
