------------------------------ MODULE MCPagedKV ------------------------------
EXTENDS PagedKVProps, SequencesExt
CONSTANTS t1, t2
MCPair    == {<<t1>>, <<t1, t1, t2>>}
MCPrompts == MCPair \cup {<<t2, t2, t2, t2>>}
MCShort   == {<<t1>>, <<t1, t1>>}

\* BOUND: the model answers t1.  What a sequence or the device extends is a prompt.
Answers(text) == \A i \in 1..Len(text) : \/ text[i] = t1
                                         \/ \E p \in Prompts : i <= Len(p) /\ IsPrefix(p, text)
Greedy == \A s \in Seqs : Answers(ids[s]) /\ Answers(wtext[s])

\* BOUND: two sessions, and a third one only while nothing is in flight and the
\* others' texts are short: its prompt is as long as two others, and like none.
Guests == {s \in Seqs : ids[s] # <<>> /\ ids[s][1] = t2}
Taken  == {s \in Seqs : status[s] # "none" \/ Referenced(s)}
Crowd  == /\ Cardinality(Taken \ Guests) <= 2
          /\ \A g \in Guests :
               /\ Guests = {g} /\ status[g] \in {"WAITING", "READY"} /\ queue = <<>>
               /\ \A s \in Seqs \ {g} : status[s] # "none" /\ Len(ids[s]) <= 3

MCSymmetry == Permutations(Blocks) \cup Permutations(Seqs)
=============================================================================
