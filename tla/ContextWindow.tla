---------------------------- MODULE ContextWindow ----------------------------
(***************************************************************************)
(* Fitting one list of messages to the token budget of a model             *)
(* (ChatService._fit_to_budget, HistorySummarizer.compress, trim_to_budget *)
(* and the pairing helpers of service/chat/_tool_helpers.py): compact the  *)
(* tool payloads, then replace the older messages by a summary, then drop  *)
(* the oldest messages, each only while the list is still too long.        *)
(*                                                                         *)
(* What is sent is the set `kept' of positions of the original list, in    *)
(* their order, with the summary after the leading system message.  The    *)
(* size of a message stands for its tokens with its framing.               *)
(***************************************************************************)
EXTENDS Integers, Sequences, FiniteSets, Functions

CONSTANTS CallId,        \* ids of tool calls
          Transcripts,   \* the lists of messages given to _fit_to_budget
          Budgets,       \* TokenBudget.input_budget
          KeepRecents,   \* settings.chat.keep_recent_turns, at least 1
          SummarySizes   \* sizes a summary may have

NoCall == "no call"
Message == [role: {"system", "user", "assistant", "tool"},
            calls: SUBSET CallId,        \* declared, assistant rows only
            call: CallId \cup {NoCall},  \* answered, tool rows only
            size: Nat,                   \* as stored
            small: Nat]                  \* with a tool payload compacted

ASSUME TranscriptAssumption ==
    \A m \in Transcripts : /\ m \in Seq(Message) /\ m # <<>>
                           /\ m[Len(m)].role # "system" \/ Len(m) > 1
ASSUME SizeAssumption == /\ Budgets \subseteq Nat
                         /\ KeepRecents \subseteq Nat \ {0}
                         /\ SummarySizes \subseteq Nat \ {0}

VARIABLES msgs, budget, keepRecent,
          summarizer,   \* a HistorySummarizer is wired
          stage,        \* where _fit_to_budget is
          compact,      \* tool payloads have been compacted
          kept,         \* positions of msgs still in the list
          summary       \* size of the summary in the list, 0 without one

given == <<msgs, budget, keepRecent, summarizer>>
vars  == <<given, stage, compact, kept, summary>>

Init == /\ msgs \in Transcripts /\ budget \in Budgets
        /\ keepRecent \in KeepRecents /\ summarizer \in BOOLEAN
        /\ stage = "start" /\ compact = FALSE
        /\ kept = DOMAIN msgs /\ summary = 0

\* TokenBudget.fits of count_messages, for the messages K and a summary.
Size(compacted) ==
    [i \in DOMAIN msgs |-> IF compacted THEN msgs[i].small ELSE msgs[i].size]
Tokens(K, compacted) == SumFunctionOnSet(Size(compacted), K)
Fits(K, s, compacted) == Tokens(K, compacted) + s <= budget

\* The first message, when it is a system message: it is never dropped.
Lead == {i \in {1} : msgs[1].role = "system"}

Declares(a, t) == /\ msgs[a].role = "assistant" /\ msgs[t].role = "tool"
                  /\ msgs[t].call \in msgs[a].calls

\* Variant: only the row just before the tool row may declare it.
DropNotAdjacent(K) ==
    {t \in K : msgs[t].role = "tool" => t - 1 \in K /\ Declares(t - 1, t)}

\* drop_orphan_tool_messages: a tool row stays if an assistant row before it
\* in the list declares its call.
DropOrphans(K) ==
    {t \in K : msgs[t].role = "tool" =>
                   \E a \in K : a < t /\ Declares(a, t)}

\* _split_breaks_tool_pair: cutting before position b would part a tool row
\* from the assistant row that declares its call.
Breaks(b) ==
    \/ msgs[b].role = "tool"
    \/ \E t \in b..Len(msgs) : /\ msgs[t].role = "tool"
                               /\ \A a \in b..Len(msgs) : ~Declares(a, t)

\* pair_safe_recent_split: start from the keepRecent newest messages and walk
\* back until the cut breaks no pair.
First == IF Lead = {} THEN 1 ELSE 2
Target == Len(msgs) - keepRecent + 1
IsBoundary(b) == /\ b \in First..Target
                 /\ b = First \/ ~Breaks(b)
                 /\ \A c \in (b + 1)..Target : Breaks(c)

\* _fit_to_budget and compress agree on the first two steps.
KeepAll ==
    /\ stage = "start"
    /\ Fits(kept, 0, FALSE)
    /\ stage' = "done"
    /\ UNCHANGED <<given, compact, kept, summary>>

CompactTools ==
    /\ stage = "start"
    /\ ~Fits(kept, 0, FALSE)
    /\ compact' = TRUE
    /\ stage' = IF Fits(kept, 0, TRUE) THEN "done"
                ELSE IF summarizer THEN "split" ELSE "trim"
    /\ UNCHANGED <<given, kept, summary>>

\* Too short a body, or a boundary that leaves nothing to summarise.
NothingOlder ==
    /\ stage = "split"
    /\ Len(msgs) - (First - 1) <= keepRecent \/ IsBoundary(First)
    /\ stage' = "trim"
    /\ UNCHANGED <<given, compact, kept, summary>>

\* Variant: the rebuilt list is not measured again.
SummariseUnmeasured ==
    /\ stage = "split"
    /\ \E b \in (First + 1)..Target, s \in SummarySizes :
          /\ IsBoundary(b)
          /\ kept' = DropOrphans(Lead \cup b..Len(msgs))
          /\ summary' = s
          /\ stage' = "done"
    /\ UNCHANGED <<given, compact>>

\* _summarize, an LLM call: on success the older part is replaced, and the
\* list is measured again.
Summarise ==
    /\ stage = "split"
    /\ \E b \in (First + 1)..Target, s \in SummarySizes :
          /\ IsBoundary(b)
          /\ kept' = DropOrphans(Lead \cup b..Len(msgs))
          /\ summary' = s
          /\ stage' = IF Fits(kept', s, TRUE) THEN "done" ELSE "trim"
    /\ UNCHANGED <<given, compact>>

SummaryFails ==
    /\ stage = "split"
    /\ \E b \in (First + 1)..Target : IsBoundary(b)
    /\ stage' = "trim"
    /\ UNCHANGED <<given, compact, kept, summary>>

\* trim_to_budget, reached only with a list that was measured as too long.
\* The leading message is its first system message, and that is the summary
\* when there is no other; l is the last message.
LeadTokens == IF Lead = {} THEN summary ELSE 0
Middle(l) == kept \ (Lead \cup {l})

Suffixes(l) == {{i \in Middle(l) : i >= c} : c \in Middle(l) \cup {l}}

Ends(M, l) == Lead \cup M \cup {l}

\* M: as many of the newest messages as fit; none, when not even one does.
IsTrimmed(M, l) ==
    /\ Fits(Ends(M, l), LeadTokens, compact) \/ M = {}
    /\ \A N \in Suffixes(l) :
          Fits(Ends(N, l), LeadTokens, compact) => N \subseteq M

\* Variant: no final pass.
TrimBare ==
    /\ stage = "trim"
    /\ \E l \in kept : /\ \A i \in kept : i <= l
                      /\ \E M \in Suffixes(l) : IsTrimmed(M, l)
                                              /\ kept' = Ends(M, l)
    /\ summary' = LeadTokens
    /\ stage' = "done"
    /\ UNCHANGED <<given, compact>>

\* The summary is the first to go, then the oldest messages; a final pass
\* removes the tool rows left without their assistant row.
Trim ==
    /\ stage = "trim"
    /\ \E l \in kept : /\ \A i \in kept : i <= l
                      /\ \E M \in Suffixes(l) : IsTrimmed(M, l)
                                              /\ kept' = DropOrphans(Ends(M, l))
    /\ summary' = LeadTokens
    /\ stage' = "done"
    /\ UNCHANGED <<given, compact>>

Next == \/ KeepAll \/ CompactTools \/ NothingOlder \/ Summarise
        \/ SummaryFails \/ Trim

Spec == Init /\ [][Next]_vars

-----------------------------------------------------------------------------
(***************************************************************************)
(* Properties                                                              *)
(***************************************************************************)

\* The types of the variables; and trim_to_budget is given only a list that
\* was compacted and is still too long, so its fast path is never taken.
TypeOK ==
    /\ msgs \in Seq(Message) /\ msgs # <<>> /\ budget \in Nat
    /\ keepRecent \in Nat \ {0} /\ summarizer \in BOOLEAN
    /\ stage \in {"start", "split", "trim", "done"} /\ compact \in BOOLEAN
    /\ kept \subseteq DOMAIN msgs /\ summary \in Nat
    /\ stage = "trim" => compact /\ ~Fits(kept, summary, compact)

Orphan(t) == /\ msgs[t].role = "tool"
             /\ \A a \in kept : a < t => ~Declares(a, t)

\* A list that had to be cut is sent without dangling tool rows: each one
\* follows the assistant row that declares its call.
NoDangling ==
    stage = "done" /\ kept # DOMAIN msgs => \A t \in kept : ~Orphan(t)

\* No tool call loses its answer: an assistant row that is sent is sent with
\* every later tool row that answers it.
PairsWhole ==
    \A a \in kept, t \in DOMAIN msgs : a < t /\ Declares(a, t) => t \in kept

\* What is sent fits, unless only the leading message and the last are left.
WithinBudget ==
    stage = "done" => \/ Fits(kept, summary, compact)
                      \/ kept \subseteq Lead \cup {Len(msgs)}

\* trim_to_budget's docstring: the last (most recent) message is always kept,
\* it is the one the model is answering.
LastKept == stage = "done" => Len(msgs) \in kept
=============================================================================
