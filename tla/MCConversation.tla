--------------------------- MODULE MCConversation ---------------------------
(***************************************************************************)
(* Conversation with two findings that are the same but for their quote.   *)
(***************************************************************************)
EXTENDS Conversation

CONSTANTS f, g

MCFps == {f, g}
MCCoarse == [fp \in MCFps |-> MCFps]
MCSimilarity == [p \in MCFps \X MCFps |-> 0]
MCPathOrder == Path :> 1
QuoteSymmetry == Permutations(MCFps)

\* The sticky comment and the bypass log are different comments, and their jobs
\* meet nowhere else: one behaviour is about one of them.
AboutTheLog == label \/ merged # None
               \/ (\E i \in DOMAIN comments : comments[i].marker = Log)
               \/ \E j \in DOMAIN jobs : jobs[j].kind \in {"bypass", "re-review"}
AboutTheSticky == (Len(comments) > 1 /\ comments[2].marker = Sticky)
                  \/ (\E t \in DOMAIN threads :
                        threads[t].down \/ threads[t].by # Nobody \/ threads[t].replies # <<>>)
                  \/ \E j \in DOMAIN jobs : jobs[j].kind \in {"signals", "review"}
OneComment == ~(AboutTheLog /\ AboutTheSticky)

\* Within the expiry and the window, or past them.
TwoTicks == clock <= 1

\* People say two things in all: two replies, or a reply and a comment with the
\* marker of the sticky comment, or one with the marker of the log.
FewWords ==
  LET replies == UNION {{<<t, r>> : r \in DOMAIN threads[t].replies} : t \in DOMAIN threads}
      restated == Cardinality({i \in DOMAIN comments : comments[i].poster # Cite})
  IN restated <= 1 /\ Cardinality(replies) + restated <= 2
=============================================================================
