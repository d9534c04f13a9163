--------------------------- MODULE ZstStateChange ---------------------------
(***************************************************************************)
(* State changes of a pipeline: zst_pipeline_set_state (zst_pipeline.c),   *)
(* zst_element_set_state (zst_element.c) and bin_change_state (zst_bin.c), *)
(* which call each other recursively and undo what they did when a hook of *)
(* an element fails, beside a scheduler worker that ends a source          *)
(* (execute_element_task, zst_scheduler.c).                                *)
(*                                                                         *)
(* The application's thread is an explicit stack of call frames, the top   *)
(* first, and a register "ret" with the result of the last return.  One    *)
(* action is the code between two calls, so a worker's step may come       *)
(* between any two reads and writes of el->state.                          *)
(*                                                                         *)
(* A hook (open, preroll, start, stop, unpreroll, close) is external code: *)
(* it succeeds, or it fails and changes nothing.  level[e] records what    *)
(* the hooks of e have really been asked to do: 0 closed, 1 open, 2        *)
(* prerolled, 3 started.                                                   *)
(***************************************************************************)
EXTENDS Integers, Sequences, FiniteSets, SequencesExt

CONSTANTS
    Elements,      \* pipe->elements, in the order zst_pipeline_add left them
    Children,      \* Children[b]: the children of bin b, in order
    Loose,         \* elements outside the pipeline, which the application moves itself
    Sources,       \* elements a scheduler worker may run to their end
    MaxFailures    \* bound: hooks that fail

VARIABLES
    stack,         \* the frames of the running zst_pipeline_set_state
    ret,           \* the result of the call that returned last
    pipeState,     \* pipe->state
    state,         \* el->state
    level,         \* what the hooks of the element have established
    transition,    \* pipe->state_transition_active
    readers,       \* read holds of pipe->elements_lock by this thread
    clock,         \* pipe->clock # NULL
    errors,        \* an error event of this call was posted
    working,       \* sources inside execute_element_task, past its check
    subject,       \* history: the loose element the last call was for, or None
    before,        \* history: the state of the pipeline or subject when it began
    failures,      \* history: hooks that failed
    dirty,         \* history: a hook failed while something was being undone
    ended          \* history: sources a worker has moved to READY

vars == <<stack, ret, pipeState, state, level, transition, readers, clock,
          errors, working, subject, before, failures, dirty, ended>>

histories == <<subject, before, failures, dirty, ended>>

(* zst_state_t *)
NULL    == 0
READY   == 1
PAUSED  == 2
PLAYING == 3
States  == NULL .. PLAYING

Bins  == DOMAIN Children
All   == ToSet(Elements) \cup Loose \cup UNION {ToSet(Children[b]) : b \in Bins}
Leafs == All \ Bins            \* g_bin_ops has no state hooks
None  == "none"

ASSUME TopologyAssumption ==
    /\ Elements \in Seq(ToSet(Elements))
    /\ \A b \in Bins : Children[b] \in Seq(ToSet(Children[b]))
    /\ Bins \subseteq ToSet(Elements) \cup Loose
    /\ Sources \subseteq Leafs \ Loose              \* a scheduler runs a pipeline's elements
    /\ MaxFailures \in Nat /\ None \notin All

(* An element has one parent, where it is once, and bins are not nested.   *)
(* zst_bin_add refuses a second time in one bin (zst_bin.c:424); the rest  *)
(* is left to the application, as in its tests and examples.               *)
ASSUME ParentAssumption ==
    /\ Loose \cap ToSet(Elements) = {}
    /\ \A i, j \in DOMAIN Elements : Elements[i] = Elements[j] => i = j
    /\ \A b \in Bins :
          /\ ToSet(Children[b]) \cap (ToSet(Elements) \cup Loose) = {}
          /\ \A i, j \in DOMAIN Children[b] : Children[b][i] = Children[b][j] => i = j
          /\ \A c \in Bins \ {b} : ToSet(Children[b]) \cap ToSet(Children[c]) = {}

Idle  == stack = <<>>
Frame == Head(stack)

PipelineFrame(s) ==
    [fn |-> "pipeline", el |-> None, to |-> s, from |-> s, pc |-> "enter", i |-> 0,
     lim |-> 0, r |-> "OK"]

ElementFrame(e, s) == [PipelineFrame(s) EXCEPT !.fn = "element", !.el = e]

BinFrame(b, old, s) ==
    [PipelineFrame(s) EXCEPT !.fn = "bin", !.el = b, !.from = old, !.pc = "walk", !.i = 1]

At(fn, pc) == ~Idle /\ Frame.fn = fn /\ Frame.pc = pc

Goto(caller)         == stack' = <<caller>> \o Tail(stack)
Call(caller, callee) == stack' = <<callee, caller>> \o Tail(stack)
Return(r)            == stack' = Tail(stack) /\ ret' = r

Init ==
    /\ stack = <<>>
    /\ ret = "OK"
    /\ pipeState = NULL
    /\ state = [e \in All |-> NULL]
    /\ level = [e \in Leafs |-> 0]
    /\ transition = FALSE
    /\ readers = 0
    /\ clock = FALSE
    /\ errors = FALSE
    /\ working = {}
    /\ subject = None
    /\ before = NULL
    /\ failures = 0
    /\ dirty = FALSE
    /\ ended = {}

-----------------------------------------------------------------------------
(* zst_pipeline_set_state.  A frame whose caller is itself a pipeline      *)
(* frame is one of the recursive calls that decompose or undo a change.    *)

SetState(s) ==
    /\ Idle
    /\ stack' = <<PipelineFrame(s)>>
    /\ subject' = None
    /\ before' = pipeState
    /\ errors' = FALSE
    /\ UNCHANGED <<ret, pipeState, state, level, transition, readers, clock,
                   working, failures, dirty, ended>>

(* An application may also move an element it holds by itself. *)
SetElementState(e, s) ==
    /\ Idle
    /\ stack' = <<ElementFrame(e, s)>>
    /\ subject' = e
    /\ before' = state[e]
    /\ errors' = FALSE
    /\ UNCHANGED <<ret, pipeState, state, level, transition, readers, clock,
                   working, failures, dirty, ended>>

(* One step of the way from a to b. *)
Toward(a, b) == IF b > a THEN a + 1 ELSE a - 1

(* The k-th element of a walk: sources first on the way up, sinks first on *)
(* the way down.                                                           *)
Nth_Forward(up, k) == Elements[k]

Nth(up, k) == Elements[IF up THEN k ELSE Len(Elements) + 1 - k]

Up == Frame.to > Frame.from

PipelineSame ==
    /\ At("pipeline", "enter")
    /\ pipeState = Frame.to
    /\ Return("OK")
    /\ UNCHANGED <<pipeState, state, level, transition, readers, clock, errors,
                   working, histories>>

PipelineDecompose ==
    /\ At("pipeline", "enter")
    /\ Frame.to # pipeState
    /\ Frame.to # Toward(pipeState, Frame.to)
    /\ Call([Frame EXCEPT !.from = pipeState, !.pc = "first"],
            PipelineFrame(Toward(pipeState, Frame.to)))
    /\ UNCHANGED <<ret, pipeState, state, level, transition, readers, clock,
                   errors, working, histories>>

PipelineFirst ==
    /\ At("pipeline", "first")
    /\ IF ret = "OK"
       THEN /\ Call([Frame EXCEPT !.pc = "second"], PipelineFrame(Frame.to))
            /\ UNCHANGED ret
       ELSE Return(ret)
    /\ UNCHANGED <<pipeState, state, level, transition, readers, clock, errors,
                   working, histories>>

PipelineSecond_NoUndo ==
    /\ At("pipeline", "second")
    /\ Return(ret)
    /\ UNCHANGED <<pipeState, state, level, transition, readers, clock, errors,
                   working, histories>>

PipelineSecond ==
    /\ At("pipeline", "second")
    /\ IF ret = "OK"
       THEN Return(ret)
       ELSE /\ Call([Frame EXCEPT !.pc = "undo", !.r = ret], PipelineFrame(Frame.from))
            /\ UNCHANGED ret
    /\ UNCHANGED <<pipeState, state, level, transition, readers, clock, errors,
                   working, histories>>

PipelineUndone ==
    /\ At("pipeline", "undo")
    /\ Return(Frame.r)
    /\ UNCHANGED <<pipeState, state, level, transition, readers, clock, errors,
                   working, histories>>

(* The single step: pick a clock on the way to PLAYING, then the walk over *)
(* the elements, forward on the way up and backward on the way down.       *)
PipelineEnter ==
    /\ At("pipeline", "enter")
    /\ Frame.to # pipeState
    /\ Frame.to = Toward(pipeState, Frame.to)
    /\ clock' = (clock \/ Frame.to = PLAYING)
    /\ transition' = TRUE
    /\ readers' = readers + 1
    /\ Goto([Frame EXCEPT !.from = pipeState, !.pc = "walk", !.i = 1])
    /\ UNCHANGED <<ret, pipeState, state, level, errors, working, histories>>

PipelineWalk ==
    /\ At("pipeline", "walk")
    /\ Frame.i \in DOMAIN Elements
    /\ Call([Frame EXCEPT !.pc = "walked"], ElementFrame(Nth(Up, Frame.i), Frame.to))
    /\ UNCHANGED <<ret, pipeState, state, level, transition, readers, clock,
                   errors, working, histories>>

(* An element that failed is not rolled back itself: the rollback starts   *)
(* with the one that changed just before it.                               *)
PipelineWalked ==
    /\ At("pipeline", "walked")
    /\ IF ret = "OK"
       THEN Goto([Frame EXCEPT !.pc = "walk", !.i = @ + 1])
       ELSE Goto([Frame EXCEPT !.pc = "rollback", !.i = @ - 1, !.r = ret])
    /\ UNCHANGED <<ret, pipeState, state, level, transition, readers, clock,
                   errors, working, histories>>

PipelineRollback ==
    /\ At("pipeline", "rollback")
    /\ Frame.i \in DOMAIN Elements
    /\ Call([Frame EXCEPT !.i = @ - 1], ElementFrame(Nth(Up, Frame.i), Frame.from))
    /\ UNCHANGED <<ret, pipeState, state, level, transition, readers, clock,
                   errors, working, histories>>

PipelineFail ==
    /\ At("pipeline", "rollback")
    /\ Frame.i \notin DOMAIN Elements
    /\ readers' = readers - 1
    /\ transition' = FALSE
    /\ errors' = TRUE
    /\ Return(Frame.r)
    /\ UNCHANGED <<pipeState, state, level, clock, working, histories>>

PipelineDone ==
    /\ At("pipeline", "walk")
    /\ Frame.i \notin DOMAIN Elements
    /\ readers' = readers - 1
    /\ transition' = FALSE
    /\ pipeState' = Frame.to
    /\ Return("OK")
    /\ UNCHANGED <<state, level, clock, errors, working, histories>>

-----------------------------------------------------------------------------
(* zst_element_set_state *)

(* The state a change from a to b goes through first, b when it is a       *)
(* single step.                                                            *)
Via(a, b) ==
    CASE a = NULL    /\ b > READY   -> READY
      [] a = READY   /\ b = PLAYING -> PAUSED
      [] a = PLAYING /\ b < PAUSED  -> PAUSED
      [] a = PAUSED  /\ b < READY   -> READY
      [] OTHER                      -> b

ElementEnter ==
    /\ At("element", "enter")
    /\ LET cur == state[Frame.el]
           via == Via(cur, Frame.to)
       IN  \/ cur = Frame.to /\ Return("OK")
           \/ /\ cur # Frame.to /\ via = Frame.to
              /\ Goto([Frame EXCEPT !.from = cur, !.pc = "hook"])
              /\ UNCHANGED ret
           \/ /\ cur # Frame.to /\ via # Frame.to
              /\ Call([Frame EXCEPT !.from = cur, !.pc = "first"],
                      ElementFrame(Frame.el, via))
              /\ UNCHANGED ret
    /\ UNCHANGED <<pipeState, state, level, transition, readers, clock, errors,
                   working, histories>>

ElementFirst ==
    /\ At("element", "first")
    /\ IF ret = "OK"
       THEN /\ Call([Frame EXCEPT !.pc = "second"], ElementFrame(Frame.el, Frame.to))
            /\ UNCHANGED ret
       ELSE Return(ret)
    /\ UNCHANGED <<pipeState, state, level, transition, readers, clock, errors,
                   working, histories>>

(* Only a change upward is undone when its second half fails. *)
ElementSecond ==
    /\ At("element", "second")
    /\ IF ret = "OK" \/ Frame.to < Frame.from
       THEN Return(ret)
       ELSE /\ Call([Frame EXCEPT !.pc = "undo", !.r = ret],
                    ElementFrame(Frame.el, Frame.from))
            /\ UNCHANGED ret
    /\ UNCHANGED <<pipeState, state, level, transition, readers, clock, errors,
                   working, histories>>

ElementUndone ==
    /\ At("element", "undo")
    /\ Return(Frame.r)
    /\ UNCHANGED <<pipeState, state, level, transition, readers, clock, errors,
                   working, histories>>

(* A frame that is undoing what an enclosing call had done. *)
Undoing == \E k \in DOMAIN stack : stack[k].pc \in {"undo", "rollback"}

(* The hook of a single step: it moves the element's level, or it fails    *)
(* and the state is not stored.                                            *)
ElementHook_StoreAnyway ==
    /\ At("element", "hook")
    /\ Frame.el \in Leafs
    /\ \/ level' = [level EXCEPT ![Frame.el] = Frame.to] /\ UNCHANGED <<failures, dirty>>
       \/ /\ failures < MaxFailures
          /\ failures' = failures + 1
          /\ dirty' = (dirty \/ Undoing)
          /\ UNCHANGED level
    /\ Goto([Frame EXCEPT !.pc = "store"])
    /\ UNCHANGED <<ret, pipeState, state, transition, readers, clock, errors,
                   working, subject, before, ended>>

ElementHook ==
    /\ At("element", "hook")
    /\ Frame.el \in Leafs
    /\ \/ /\ level' = [level EXCEPT ![Frame.el] = Frame.to]
          /\ Goto([Frame EXCEPT !.pc = "store"])
          /\ UNCHANGED <<ret, failures, dirty>>
       \/ /\ failures < MaxFailures
          /\ failures' = failures + 1
          /\ dirty' = (dirty \/ Undoing)
          /\ Return("ERROR")
          /\ UNCHANGED level
    /\ UNCHANGED <<pipeState, state, transition, readers, clock, errors,
                   working, subject, before, ended>>

(* A bin has no hook of its own: its children change state instead.        *)
ElementBin ==
    /\ At("element", "hook")
    /\ Frame.el \in Bins
    /\ Call([Frame EXCEPT !.pc = "bin"], BinFrame(Frame.el, Frame.from, Frame.to))
    /\ UNCHANGED <<ret, pipeState, state, level, transition, readers, clock,
                   errors, working, histories>>

ElementBinDone ==
    /\ At("element", "bin")
    /\ IF ret = "OK"
       THEN Goto([Frame EXCEPT !.pc = "store"]) /\ UNCHANGED ret
       ELSE Return(ret)
    /\ UNCHANGED <<pipeState, state, level, transition, readers, clock, errors,
                   working, histories>>

ElementStore ==
    /\ At("element", "store")
    /\ state' = [state EXCEPT ![Frame.el] = Frame.to]
    /\ Return("OK")
    /\ UNCHANGED <<pipeState, level, transition, readers, clock, errors,
                   working, histories>>

-----------------------------------------------------------------------------
(* bin_change_state: the children change in the order they were added,     *)
(* whichever the direction; the ones before a failure are put back.        *)

BinWalk ==
    /\ At("bin", "walk")
    /\ IF Frame.i \in DOMAIN Children[Frame.el]
       THEN /\ Call([Frame EXCEPT !.pc = "walked"],
                    ElementFrame(Children[Frame.el][Frame.i], Frame.to))
            /\ UNCHANGED ret
       ELSE Return("OK")
    /\ UNCHANGED <<pipeState, state, level, transition, readers, clock, errors,
                   working, histories>>

(* The children below lim, where the failure was, are put back in order. *)
BinWalked ==
    /\ At("bin", "walked")
    /\ IF ret = "OK"
       THEN Goto([Frame EXCEPT !.pc = "walk", !.i = @ + 1])
       ELSE Goto([Frame EXCEPT !.pc = "rollback", !.i = 1, !.lim = Frame.i, !.r = ret])
    /\ UNCHANGED <<ret, pipeState, state, level, transition, readers, clock,
                   errors, working, histories>>

BinRollback_NoAdvance ==
    /\ At("bin", "rollback")
    /\ IF Frame.i < Frame.lim
       THEN /\ Call(Frame, ElementFrame(Children[Frame.el][Frame.i], Frame.from))
            /\ UNCHANGED <<ret, errors>>
       ELSE Return(Frame.r) /\ errors' = TRUE
    /\ UNCHANGED <<pipeState, state, level, transition, readers, clock,
                   working, histories>>

BinRollback ==
    /\ At("bin", "rollback")
    /\ IF Frame.i < Frame.lim
       THEN /\ Call([Frame EXCEPT !.i = @ + 1],
                    ElementFrame(Children[Frame.el][Frame.i], Frame.from))
            /\ UNCHANGED <<ret, errors>>
       ELSE Return(Frame.r) /\ errors' = TRUE
    /\ UNCHANGED <<pipeState, state, level, transition, readers, clock,
                   working, histories>>

-----------------------------------------------------------------------------
(* execute_element_task: a worker that saw the source PLAYING calls its    *)
(* process(), and stores READY when that reports the end of the stream,    *)
(* whatever el->state has become meanwhile.                                *)

WorkerTakes(e) ==
    /\ state[e] = PLAYING
    /\ e \notin working
    /\ working' = working \cup {e}
    /\ UNCHANGED <<stack, ret, pipeState, state, level, transition, readers,
                   clock, errors, histories>>

WorkerReturns(e) ==
    /\ e \in working
    /\ working' = working \ {e}
    /\ UNCHANGED <<stack, ret, pipeState, state, level, transition, readers,
                   clock, errors, histories>>

WorkerEof(e) ==
    /\ e \in working
    /\ working' = working \ {e}
    /\ state' = [state EXCEPT ![e] = READY]
    /\ ended' = ended \cup {e}
    /\ UNCHANGED <<stack, ret, pipeState, level, transition, readers, clock,
                   errors, subject, before, failures, dirty>>

-----------------------------------------------------------------------------
Pipeline ==
    \/ PipelineSame \/ PipelineDecompose \/ PipelineFirst \/ PipelineSecond
    \/ PipelineUndone \/ PipelineEnter \/ PipelineWalk \/ PipelineWalked
    \/ PipelineRollback \/ PipelineFail \/ PipelineDone

Element ==
    \/ ElementEnter \/ ElementFirst \/ ElementSecond \/ ElementUndone
    \/ ElementHook \/ ElementBin \/ ElementBinDone \/ ElementStore

Bin == BinWalk \/ BinWalked \/ BinRollback

Next ==
    \/ \E s \in States : SetState(s) \/ \E e \in Loose : SetElementState(e, s)
    \/ Pipeline
    \/ Element
    \/ Bin
    \/ \E e \in Sources : WorkerTakes(e) \/ WorkerReturns(e) \/ WorkerEof(e)

Spec == Init /\ [][Next]_vars

(* The calling thread runs, and hooks return: they are ordinary calls. *)
FairSpec == Spec /\ WF_vars(Pipeline \/ Element \/ Bin)

-----------------------------------------------------------------------------
(* Properties *)

FrameType ==
    [fn : {"pipeline", "element", "bin"}, el : All \cup {None}, to : States,
     from : States, i : Nat, lim : Nat, r : {"OK", "ERROR"},
     pc : {"enter", "first", "second", "undo", "walk", "walked", "rollback",
           "hook", "bin", "store"}]

(* Types: states are the four of zst_state_t, one thread holds the         *)
(* elements lock at most once through zst_pipeline_set_state.              *)
TypeOK ==
    /\ \A k \in DOMAIN stack : stack[k] \in FrameType
    /\ ret \in {"OK", "ERROR"}
    /\ pipeState \in States
    /\ state \in [All -> States]
    /\ level \in [Leafs -> States]
    /\ transition \in BOOLEAN /\ clock \in BOOLEAN /\ errors \in BOOLEAN
    /\ readers \in 0 .. 1
    /\ working \subseteq Sources /\ ended \subseteq Sources
    /\ subject \in Loose \cup {None}
    /\ before \in States /\ failures \in 0 .. MaxFailures /\ dirty \in BOOLEAN

(* zst_element.c:190-208: a hook runs only on an element whose earlier     *)
(* hooks left it where the hook starts from (start after preroll after     *)
(* open, each undone once), through every failure and rollback; and        *)
(* between calls el->state tells what the hooks have established.  An      *)
(* element that a worker ended is exempt: see HooksFollowDocs.             *)
HooksPaired ==
    \A e \in Leafs \ ended :
        /\ At("element", "hook") /\ Frame.el = e => level[e] = Frame.from
        /\ Idle => level[e] = state[e]

(* docs/architecture/architecture.md:81-84: open is called from NULL,      *)
(* start from PAUSED, stop from PLAYING and close from READY, so close     *)
(* finds an element whose start has been undone by stop.  This is          *)
(* HooksPaired for every element, the ones that reached their end too.     *)
HooksFollowDocs ==
    \A e \in Leafs : At("element", "hook") /\ Frame.el = e => level[e] = Frame.from

(* zst_pipeline.c:448-496: unless a rollback itself failed, a call leaves  *)
(* every element of the pipeline and every child of its bins in the state  *)
(* pipe->state names; and the children of any bin follow it, also when it  *)
(* is moved alone and undone after a child failed (zst_bin.c:322-348).     *)
InPipeline ==
    ToSet(Elements) \cup UNION {ToSet(Children[b]) : b \in Bins \ Loose}

Agreement ==
    Idle /\ ~dirty =>
        /\ \A e \in InPipeline \ ended : state[e] = pipeState
        /\ \A b \in Bins : \A c \in ToSet(Children[b]) \ ended : state[c] = state[b]

(* zst_pipeline.c:381-398 and zst_element.c:155-172: a change that fails   *)
(* half way, at any element and at any of its single steps, is undone to   *)
(* where the call started (for a loose element this is promised upward),   *)
(* and a pipeline posts an error (zst_pipeline.c:460-482).                 *)
FailureUndone ==
    Idle /\ ret = "ERROR" =>
        /\ ~dirty => IF subject = None THEN pipeState = before
                     ELSE state[subject] = before \/ state[subject] < before
        /\ subject = None => errors

(* zst_pipeline.c:443-445: sources go up first and down last, one state at *)
(* a time.  At every moment, rollbacks included, an element is where the   *)
(* one after it is or one state above.                                     *)
Staircase ==
    ~dirty => \A i, j \in DOMAIN Elements :
        i < j /\ Elements[i] \notin ended /\ Elements[j] \notin ended =>
            state[Elements[i]] - state[Elements[j]] \in {0, 1}

(* zst_pipeline.c:446-489: nested changes never overlap in the walk over   *)
(* the elements: state_transition_active and the elements lock are held by *)
(* exactly the frame that is walking, and by none between calls.           *)
TransitionBracket ==
    LET walking == {k \in DOMAIN stack : /\ stack[k].fn = "pipeline"
                                         /\ stack[k].pc \in {"walk", "walked", "rollback"}}
    IN  /\ transition <=> walking # {}
        /\ readers = Cardinality(walking)

(* zst_pipeline.c:373, zst_element.c:142: the recursion ends, whatever     *)
(* hooks fail and whenever workers overwrite el->state.                    *)
SetStateReturns == ~Idle ~> Idle

(* zst_pipeline.c:381-496, zst_bin.c:322-348: a change of state moves      *)
(* every element or, when a hook fails anywhere, none: types, Agreement    *)
(* and FailureUndone.                                                      *)
AllOrNothing == TypeOK /\ Agreement /\ FailureUndone

(* zst_pipeline.c:443-489: in any change and any rollback sources and      *)
(* sinks move in order and under the lock: Staircase and                   *)
(* TransitionBracket.                                                      *)
WalksInOrder == Staircase /\ TransitionBracket
=============================================================================
