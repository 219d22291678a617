--------------------------- MODULE KVTransferProps ---------------------------
(***************************************************************************)
(* What remote loads and saves promise.                                    *)
(***************************************************************************)
EXTENDS KVTransfer

\* The type invariant: one record per live load, one step prefetched at most.
TypeOK ==
    /\ status \in [Seqs -> {"none", "WAITING", "LOADING", "RUNNING", "STOPPED"}]
    /\ setup \in Setups /\ text \in [Seqs -> Texts \cup {<<>>}]
    /\ \A s \in Seqs : InTable(table[s]) \subseteq Blocks /\ hist[s] \in 0..Len(text[s])
    /\ \A s \in Seqs : /\ load[s].phase \in {"none", "LOADING", "READY", "PREFILLING"}
                       /\ load[s].cleanup \in {"none", "STOP", "END"}
                       /\ target[s] \in 0..Cardinality(Blocks)
                       /\ lookup[s] \in -2..Cardinality(Blocks)
    /\ Cached(cache) \cup Leased(lease) \subseteq Blocks /\ DOMAIN lease \subseteq SaveIds
    /\ Len(queue) <= 2 /\ gpu \in 0..2 /\ \A r \in Ranks : launched[r] \in gpu..Len(queue)
    /\ failed \subseteq Seqs /\ sleeping \in BOOLEAN
    /\ pc \in Await \cup {"pick", "apply", "prefetch", "drained", "asleep"}
    /\ todo \subseteq Seqs /\ batch \subseteq Seqs

\* Loads the workers of some rank have accepted or will accept.
Outstanding == (UNION {{j.req : j \in loading[r]} : r \in Ranks})
                 \cup (UNION {queue[i].loads : i \in {k \in DOMAIN queue : \E r \in Ranks : launched[r] < k}})
                 \cup pending

\* The destinations of a load belong to its loading sequence and to nobody else
\* for as long as a worker may write them, whatever the client asks meanwhile
\* (KVLoadCoordinator: "a LOADING record is retained as long as a worker may
\* write its blocks"; defer_stop_if_loading, defer_end_if_loading).
LoadsPrivate ==
    \A w \in Outstanding :
        /\ IsLoading(w.seq)
        /\ Path(table[w.seq], w.first + Len(w.blocks)) = Path(table[w.seq], w.first) \o w.blocks
        /\ \A b \in InTable(w.blocks) :
             /\ b \notin Cached(cache) \cup Leased(lease)
             /\ \A s \in Seqs \ {w.seq} : b \notin InTable(table[s])

\* A worker that reads the blocks of a save finds the text it saves, although
\* the request may have ended, its blocks been evicted and the table reused
\* since the step was built (KVSaveCoordinator.acquire and the sender's fence).
SaveReadsRight ==
    \A r \in Ranks : \A job \in saving[r] :
        job.after <= gpu => \A c \in job.req.cells : kv[r][c[1]] = c[2]

\* The next forward attends only over blocks that hold its own text, on every
\* rank, if its output will be used (_publish: after all ranks have valid
\* contents).
RowsReadRight ==
    gpu < Len(queue) =>
        \A s \in DOMAIN queue[gpu + 1].rows :
            LET row == queue[gpu + 1].rows[s] IN
            status[s] = "RUNNING" =>
                \A i \in 1..(row.first - 1) : \A r \in Ranks : kv[r][row.tbl[i]] = Path(row.text, i)

\* With nothing in flight, every block of the trie holds its text on every rank
\* (KVLoadCoordinator._publish and _rollback, BlockTrie.allocate).
CacheContentsRight ==
    queue = <<>> /\ pc = "send" =>
        \A p \in DOMAIN cache : \A r \in Ranks : kv[r][cache[p]] = p

\* The result of a load is at exactly one place on every rank until it has
\* been applied: it is neither lost nor delivered twice, so a request never
\* waits for ever and never mistakes an old result for its own
\* (get_finished, KVOutputAggregator.aggregate, update_connector_output).
Ended(e, s)    == e.kind = "load" /\ e.of = s
InStep(s, r)   == {<<"queue", i>> : i \in {k \in DOMAIN queue :
                      launched[r] < k /\ \E w \in queue[k].loads : w.seq = s}}
InThread(s, r) == {<<"thread", 0>> : j \in {x \in loading[r] : x.req.seq = s}}
AsEvent(s, r)  == {<<"event", 0>> : e \in {x \in done[r] : Ended(x, s)}}
InOutput(s, r) == {<<"output", i>> : i \in {k \in DOMAIN queue :
                      (k > 1 \/ pc # "apply") /\ \E e \in queue[k].out[r] : Ended(e, s)}}
Counted(s, r)  == {<<"counted", 0>> : x \in {w \in got : Ended(w[1], s) /\ w[2] = r}}
Applied(s)     == {<<"applied", 0>> : x \in {v \in todo : v = s /\ pc = "apply"}}
New(s)         == {<<"new", 0>> : w \in {x \in pending : x.seq = s}}
ResultAt(s, r) == InStep(s, r) \cup InThread(s, r) \cup AsEvent(s, r) \cup InOutput(s, r)
                    \cup Counted(s, r) \cup Applied(s) \cup New(s)
EachResultOnce ==
    \A s \in Seqs : \A r \in Ranks :
        pc # "asleep" => Cardinality(ResultAt(s, r)) = IF IsLoading(s) THEN 1 ELSE 0

\* Once a client has ended a request, nothing but its removal can follow the
\* load, even if a stop arrives later (_DeferredLoadCleanup).
EndWins ==
    [][\A s \in Seqs : status[s] = "LOADING" /\ load[s].cleanup = "END"
           => status'[s] \in {"LOADING", "none"} /\ (status'[s] = "LOADING" => load'[s].cleanup = "END")]_vars

\* Asleep, no session, lease, record or promise is left and every block is free
\* (finish_kv_transfers_after_worker_drain, reset_cache_after_worker_drain).
SleepLeavesNothing ==
    pc = "asleep" => /\ WithStatus("none") = Seqs
                     /\ Free = Blocks /\ DOMAIN lease = {}
                     /\ pending \cup inflight = {} /\ failed = {}
                     /\ \A s \in Seqs : load[s] = NoLoad /\ target[s] = 0 /\ plan[s] = 0

---------------------------------------------------------------------------
(* Liveness.  The loop, the workers, the streams and the lookup client run on,
   and the threads of a worker take their transfers from queues;
   requests end (max_new_tokens), and prefill gets a turn again and again. *)

Fairness ==
    /\ WF_vars(Engine) /\ WF_vars(Collect) /\ WF_vars(NoPrefetch \/ Drain \/ FinishSleep)
    /\ SF_vars(BeginPrefill)
    /\ \A r \in UNION {u.ranks : u \in Setups} :
         /\ WF_vars(r \in Ranks /\ Launch(r))
         /\ \A s \in Seqs : WF_vars(/\ r \in Ranks
                                    /\ \E job \in loading[r] : \E ok \in BOOLEAN :
                                         job.req.seq = s /\ LoadRun(r, job, ok))
         /\ \A i \in SaveIds : WF_vars(/\ r \in Ranks
                                       /\ \E job \in saving[r] : job.req.id = i /\ SaveRun(r, job))
    /\ WF_vars(GpuRun)
    /\ \A s \in Seqs : /\ WF_vars(\E n \in 0..Reusable(s) : LookupDone(s, n))
                       /\ SF_vars(\E f \in SUBSET Seqs : s \in f /\ Outputs(f))

FairSpec == Spec /\ Fairness

\* A load comes to an end, the prefix it loaded is consumed (requests that
\* hold loaded blocks do not keep each other from the rest of their prefill:
\* can_admit_load), and the blocks of a save come back, although results are
\* fetched only by steps that carry metadata (build_connector_meta keeps
\* polling, has_unfinished keeps the loop awake).
TransfersEnd ==
    /\ \A s \in Seqs : IsLoading(s) ~> ~IsLoading(s)
    /\ \A s \in Seqs : RemoteReady(s) ~> ~RemoteReady(s)
    /\ \A i \in SaveIds : i \in DOMAIN lease ~> i \notin DOMAIN lease
=============================================================================
