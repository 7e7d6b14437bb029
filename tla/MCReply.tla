------------------------------- MODULE MCReply -------------------------------
EXTENDS ConversationContext

CONSTANTS f1, f2, f3, m1, m2, m3

ThreeSalient == (f1 :> 3) @@ (f2 :> 2) @@ (f3 :> 1)
OneLong == (f1 :> 1) @@ (f2 :> 1) @@ (f3 :> 2)
MessagesAlike == Permutations(Messages)

\* What a step or a property can still look at.  Once a history is read, of the
\* log only the order in which the messages of the history were appended; once
\* the context is ready, or has failed, what the invariants say of it.
ReplyView ==
    CASE LogOpen -> <<storeVars, logVars, context>>
      [] context.at = "failed" -> <<context.at>>
      [] context.at = "ready" -> <<retrievalVars, context>>
      [] OTHER -> <<retrievalVars, context,
                    {p \in later : {p[1], p[2]} \subseteq
                                       {context.asked} \union Range(context.history)}>>
=============================================================================
