------------------------ MODULE ConversationContext ------------------------
(***************************************************************************)
(* ConversationWorkflow: the context one reply is generated from.          *)
(*                                                                         *)
(* A message that is in the log is answered: the graph of nodes classifies *)
(* it, reads the recent history, retrieves facts (Retrieval) and assembles *)
(* the package that is rendered into the prompt.  Other messages are       *)
(* appended to the conversation meanwhile, each in a statement that reads  *)
(* the highest number and inserts the next one.                            *)
(***************************************************************************)
EXTENDS Retrieval

CONSTANTS
    Uncertain,      \* facts of uncertain confidence
    Replacing,      \* facts that replaced or corrected an earlier one
    Stated,         \* facts of the user's own statement
    MaxExcerpts,    \* _MAX_EXCERPTS
    Messages,       \* messages of the conversation
    HistoryLimit    \* DEFAULT_HISTORY_LIMIT

ASSUME ContextAssumption ==
    /\ Uncertain \subseteq Facts /\ Replacing \subseteq Facts /\ Stated \subseteq Facts
    /\ IsFiniteSet(Messages)
    /\ MaxExcerpts \in Nat /\ HistoryLimit \in Nat \ {0}

VARIABLES
    seq,        \* the numbers of the messages in the log
    writing,    \* the numbers of those whose statement has not committed
    later,      \* history: <<m, n>> when n's statement began after m was in
    context     \* the context being built

logVars == <<seq, writing, later>>
contextVars == <<retrievalVars, logVars, context>>

Sections == {"uncertain", "currently_believed", "user_stated", "system_derived"}
Notices == {"not searched", "cut short", "no memory"}

NoContext == [at |-> "none"]
Nodes == {"none", "classify", "load_history", "retrieve", "assemble", "ready", "failed"}

ContextTypeOK ==
    /\ RetrievalTypeOK
    /\ DOMAIN seq \subseteq Messages /\ DOMAIN writing \subseteq Messages \ DOMAIN seq
    /\ \A m \in DOMAIN seq : seq[m] \in 1..Cardinality(Messages)
    /\ later \subseteq Messages \X Messages
    /\ context.at \in Nodes
    /\ context.at \notin {"none", "failed"} =>
          context.asked \in DOMAIN seq /\ context.notices \subseteq Notices

ContextInit ==
    /\ RetrievalInit
    /\ seq = [m \in {} |-> 0] /\ writing = [m \in {} |-> 0] /\ later = {}
    /\ context = NoContext

-----------------------------------------------------------------------------
\* The log of messages

Highest == Max({seq[m] : m \in DOMAIN seq} \union {0})

\* Only the log that a history is read from matters.
LogOpen == context.at \in {"none", "classify", "load_history"}

\* append_message: the statement sees what had committed when it began, ...
BeginAppend(m) ==
    /\ LogOpen
    /\ m \notin DOMAIN seq \union DOMAIN writing
    /\ writing' = [n \in DOMAIN writing \union {m} |->
                      IF n = m THEN Highest + 1 ELSE writing[n]]
    /\ later' = later \union {<<n, m>> : n \in DOMAIN seq}
    /\ UNCHANGED <<seq, context, retrievalVars>>

\* ... and no constraint refuses a number that is taken by then.
EndAppend(m) ==
    /\ LogOpen
    /\ m \in DOMAIN writing
    /\ writing' = [n \in DOMAIN writing \ {m} |-> writing[n]]
    /\ \/ seq' = [n \in DOMAIN seq \union {m} |-> IF n = m THEN writing[m] ELSE seq[n]]
       \/ UNCHANGED seq
    /\ UNCHANGED <<later, context, retrievalVars>>

\* get_history: the last HistoryLimit messages by number, ties in any order.
InSeq(s) == \A i, j \in DOMAIN s : i < j => seq[s[i]] <= seq[s[j]]
AllInSeq(S) == {s \in [1..Cardinality(S) -> S] : IsInjective(s) /\ InSeq(s)}
LastOf(s) ==
    IF Len(s) <= HistoryLimit THEN s
    ELSE SubSeq(s, Len(s) - HistoryLimit + 1, Len(s))

\* Variant: the newest are taken and left newest first.
NewestFirst == {Reverse(LastOf(s)) : s \in AllInSeq(DOMAIN seq)}

Histories == {LastOf(s) : s \in AllInSeq(DOMAIN seq)}

-----------------------------------------------------------------------------
\* run: the user's message is in the log before anything is read.
Ask(m) ==
    /\ context.at = "none" /\ m \in DOMAIN seq
    /\ context' = [at |-> "classify", asked |-> m, history |-> <<>>,
                   shown |-> [b \in Sections |-> {}], excerpts |-> {}, notices |-> {}]
    /\ UNCHANGED <<logVars, retrievalVars>>

\* Whatever the router decides, or when it cannot, nothing below looks at it.
Classify ==
    /\ context.at = "classify"
    /\ context' = [context EXCEPT !.at = "load_history"]
    /\ UNCHANGED <<logVars, retrievalVars>>

LoadHistory ==
    /\ context.at = "load_history"
    /\ \E history \in Histories :
          context' = [context EXCEPT !.at = "retrieve", !.history = history]
    /\ UNCHANGED <<logVars, retrievalVars>>

\* Retrieval runs, or the database ends the turn; anything else that went
\* wrong ends only the retrieval.
Retrieve ==
    /\ context.at = "retrieve"
    /\ BeginRetrieval \/ RetrievalStep
    /\ context' = [context EXCEPT
                     !.at = CASE query'.at \in {"done", "raised"} -> "assemble"
                              [] query'.at = "refused" -> "failed"
                              [] OTHER -> "retrieve"]
    /\ UNCHANGED logVars

-----------------------------------------------------------------------------
\* _split: one section per fact, the doubtful first.
SectionOf(f) ==
    CASE f \in Uncertain -> "uncertain"
      [] f \in Replacing \ Uncertain -> "currently_believed"
      [] f \in Stated \ (Replacing \union Uncertain) -> "user_stated"
      [] OTHER -> "system_derived"

\* The notices of assemble, and the policy's, which replaces a failed result
\* by an empty degraded one.
Disclosed ==
    IF query.at = "raised" THEN {"not searched", "no memory"}
    ELSE (IF query.degraded THEN {"not searched"} ELSE {})
            \union (IF query.early THEN {"cut short"} ELSE {})

\* Excerpts of the most salient facts, less those that cannot be read or have
\* no message to show.
Assemble ==
    /\ context.at = "assemble"
    /\ \E excerpts \in SUBSET MostSalient(Range(query.facts), MaxExcerpts) :
          context' = [context EXCEPT
              !.at = "ready",
              !.shown = [b \in Sections |-> {f \in Range(query.facts) : SectionOf(f) = b}],
              !.excerpts = excerpts,
              !.notices = Disclosed]
    /\ UNCHANGED <<logVars, retrievalVars>>

\* A read of the history fails, or the client goes away.
Abandon ==
    /\ context.at \notin {"none", "ready", "failed"}
    /\ context' = [context EXCEPT !.at = "failed"]
    /\ UNCHANGED <<logVars, retrievalVars>>

Meanwhile == context.at = "retrieve" /\ Change /\ UNCHANGED <<logVars, context>>

ContextNext ==
    \/ \E m \in Messages : BeginAppend(m) \/ EndAppend(m) \/ Ask(m)
    \/ Classify \/ LoadHistory \/ Retrieve \/ Assemble \/ Abandon
    \/ Meanwhile

ContextSpec == ContextInit /\ [][ContextNext]_contextVars

-----------------------------------------------------------------------------
Shown == UNION {context.shown[b] : b \in Sections}

\* Memory that could not be searched is disclosed with the reply: whenever a
\* search of the graph raised, the budget stopped the retrieval or the whole
\* stage failed, the prompt carries a notice, and it carries none otherwise.
\* This is what retrieve does and says (retrieval.py:117); the docstring of its
\* module (retrieval.py:27) still has only a total failure set degraded.
\* A failed traversal and a failed reranking are the exceptions.
LossIsDisclosed ==
    context.at = "ready" =>
        ((query.lost \/ query.early \/ query.at = "raised")
            <=> context.notices # {})

\* What the reply is told was believed by the database at some moment of the
\* retrieval, whatever the graph answered.  And no answer of the graph, and no
\* failure of it, hides a fact: one that was believed all along is shown unless
\* the budget was full, more salient facts took its place in the read, or the
\* whole stage failed, which is disclosed.
NoRoomFor(f) ==
    \/ Cardinality(Shown) = MaxItems
    \/ \E g \in live \ Shown :
          Size[g] + Chars(Shown) > MaxChars
    \/ Cardinality({g \in live : Salience[g] > Salience[f]}) >= ActiveLimit

ReplyRestsOnRecord ==
    context.at = "ready" =>
        /\ Shown \subseteq live /\ context.excerpts \subseteq Shown
        /\ \A f \in steady \ Shown : NoRoomFor(f) \/ "no memory" \in context.notices

\* The history of a reply is in the order in which the messages were appended,
\* when one was in before the other began, and it holds the message to be
\* answered unless later or simultaneous ones push it out.
HistoryInOrder ==
    context.at \in {"retrieve", "assemble", "ready"} =>
        /\ \A i, j \in DOMAIN context.history :
              <<context.history[i], context.history[j]>> \in later => i < j
        /\ \/ context.asked \in Range(context.history)
           \/ /\ Len(context.history) = HistoryLimit
              /\ \A m \in Range(context.history) : <<m, context.asked>> \notin later

\* The log, the retrieval and the context fit together.
ContextInvariant == ContextTypeOK /\ HistoryInOrder
=============================================================================
