------------------------------- MODULE MCQueue -------------------------------
(* The message queues of the web client for TLC: the queue of a split       *)
(* screen and the queue of a chat.  A run follows one plan: it says which   *)
(* of the two runs, the other one rests, and how far it goes.               *)
EXTENDS SplitQueue

CONSTANTS MaxReaders, Existing      \* of MessageQueue

VARIABLES
    written, home, waiting, halted, sending, soon, page, transport, drafting, reader,
    backend, asking, removed, failed, used                  \* of the chat

chatVars == <<written, home, waiting, halted, sending, soon, page, transport, drafting, reader,
              backend, asking, removed, failed, used>>
allVars  == <<plan, vars, chatVars>>

Chat == INSTANCE MessageQueue WITH
            typed <- written, items <- waiting, paused <- halted, dispatch <- sending,
            handoff <- soon, server <- backend, thrown <- removed, broken <- failed,
            spent <- used

ASSUME QueuesAssumption == SplitAssumption /\ Chat!QueueAssumption

-----------------------------------------------------------------------------
\* The send targets of a split screen.
OnePanel == {{"left"}, {"right"}}
OneOrBoth == {{"left"}, {"left", "right"}}
AnyPanels == (SUBSET Sides) \ {{}}

\* The plans of a chat that starts in a chat or blank, and of a split screen.
ChatPlan(start, mishaps, messages, requests, budget) ==
    [part |-> "chat", start |-> start, targets |-> OnePanel, mishaps |-> mishaps,
     messages |-> messages, requests |-> requests, budget |-> budget]
SplitPlan(targets, mishaps, messages, turns, budget) ==
    [part |-> "split", start |-> 0, targets |-> targets, mishaps |-> mishaps,
     messages |-> messages, requests |-> turns, budget |-> budget]

\* A chat whose turns fail, are refused or dropped; a new one; a user who goes from
\* chat to chat and stops turns; one who begins new chats as well.  Messages for one
\* panel each; for any panels; panels whose turns are stopped and whose chats are
\* replaced; turns that fail or are stopped.
ManyPlans == {
    ChatPlan(7, {"command", "fail", "refuse", "drop"}, 3, 6, 4),
    ChatPlan(0, {"command", "fail", "refuse"}, 3, 6, 4),
    ChatPlan(7, {"command", "stop", "open", "lost"}, 2, 3, 2),
    ChatPlan(0, {"command", "stop", "open", "new", "lost"}, 2, 3, 2),
    SplitPlan(OnePanel, {"command", "fail", "refuse", "drop"}, 3, 5, 3),
    SplitPlan(AnyPanels, {"command", "fail", "refuse"}, 2, 5, 4),
    SplitPlan(OneOrBoth, {"command", "stop", "replace"}, 2, 3, 2),
    SplitPlan(OneOrBoth, {"command", "fail", "stop", "lost", "drop"}, 2, 4, 2)}

-----------------------------------------------------------------------------
QueuesInit == Init /\ (plan.part = "chat" => target = {"left"}) /\ Chat!Init

QueuesNext ==
    \/ /\ plan.part = "split" /\ Next /\ UNCHANGED <<plan, chatVars>>
       /\ typed' <= plan.messages /\ Len(turn') <= plan.requests /\ spent' <= plan.budget
    \/ /\ plan.part = "chat" /\ Chat!Next /\ UNCHANGED <<plan, vars>>
       /\ written' <= plan.messages /\ Len(reader') <= plan.requests /\ used' <= plan.budget

QueuesSpec == QueuesInit /\ [][QueuesNext]_allVars

-----------------------------------------------------------------------------
TypesOK == TypeOK /\ Chat!TypeOK

\* What does not happen in a run.
Never(ks) == plan.mishaps \cap ks = {}
Only(ks) == plan.mishaps \subseteq ks

\* No typed message disappears unless the user removes it.  It goes nowhere but to the
\* chats it was typed in, as long as the page shows one.
MessagesKept == /\ NothingDropped /\ Chat!NothingDropped
                /\ StaysInItsChats
                /\ plan.start # Chat!Blank /\ Never({"new"}) => Chat!StaysInItsChat

\* No chat gets a message twice, and no panel of a split screen, unless turns are
\* stopped, chats are replaced or answers are lost.
SentOnce == /\ Never({"stop", "replace", "lost"}) => OncePerPanel
            /\ Never({"stop", "lost"}) => Chat!NeverTwice

\* The queue starts no turn beside another one of the same chat or panel, unless
\* connections drop or the user does not let a turn end.  A message that is sent again
\* goes to no panel that has it, unless turns are stopped, chats replaced or answers
\* lost.
TurnsApart == /\ Never({"replace"}) => TurnsDoNotMix
              /\ Never({"stop", "replace", "lost"}) => RetryIsExact
              /\ Only({"command", "fail", "refuse"}) => Chat!NoOverlap

\* After a failure nothing leaves the queue before the user resumes it; on a split
\* screen when every message is for one panel, and no answer is lost.
Unbroken == /\ Never({"stop", "replace", "lost"}) /\ plan.targets \subseteq OnePanel => LeavesUnbroken
            /\ Only({"command", "fail", "refuse", "drop"}) => Chat!LeavesUnbroken
BreaksHold == [][Unbroken]_allVars
=============================================================================
