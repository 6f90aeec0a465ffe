-------------------------------- MODULE StrqCq --------------------------------
(***************************************************************************)
(* The striding receive queue of src/src/vma/dev/cq_mgr_mlx5_strq.cpp.     *)
(* A receive WQE (a buffer of STRIDES strides) is posted to the RQ; the    *)
(* device writes one CQE per packet, each covering a number of strides of  *)
(* the WQE at the head of the RQ.  cq_mgr_mlx5_strq::poll() turns a CQE    *)
(* into a stride descriptor (taken from cq_strides_cache) that points into *)
(* the WQE, and the WQE's reference count, set to STRIDES when it becomes  *)
(* the hot buffer, is decreased by every stride given back: the stride     *)
(* that brings it to zero returns the WQE to the rx pool.                  *)
(*                                                                         *)
(* Strides are interchangeable descriptors, so the cache is modelled by    *)
(* counts: r descriptors left in _retrieve_vec, f stored in _return_vec,   *)
(* b full vectors in _block_vec; every vector has C entries.  A stride     *)
(* handed out is the record [w |-> WQE it points into, n |-> strides_num]. *)
(***************************************************************************)
EXTENDS Integers, Sequences, FiniteSetsExt, Bags

CONSTANTS
    WQES,           \* the receive WQE buffers of the RQ
    STRIDES,        \* _strides_num, strides per WQE
    C,              \* _compensation_level = max(CQ_CACHE_MIN_STRIDES, sysvar)
    MAX_PKT,        \* the most strides one packet takes
    ERR_STRIDES,    \* what an error CQE's stride field may hold
    FLUSH_MIDWQE,   \* whether an error CQE may come for a WQE already in use
    BATCH_MAX,      \* m_n_sysvar_cq_poll_batch_max
    WCE_MAX,        \* m_n_sysvar_progress_engine_wce_max
    CQ_MAX          \* CQEs the device may have written ahead of the poller

ASSUME /\ STRIDES \in Nat \ {0} /\ C \in Nat \ {0} /\ MAX_PKT \in 1..STRIDES
       /\ ERR_STRIDES \subseteq 0..STRIDES /\ FLUSH_MIDWQE \in BOOLEAN
       /\ BATCH_MAX \in Nat \ {0} /\ WCE_MAX \in Nat \ {0} /\ CQ_MAX \in Nat \ {0}

\* MAX_CACHED_BLOCKS
MAX_BLOCKS == 3

VARIABLES
    sw,     \* the software state: the cq_mgr_mlx5_strq object, its stride cache,
            \* the WQE reference counts, the rx pool and the strides handed out
    pos     \* strides the device has filled in the WQE it is writing

vars == <<sw, pos>>

NoStride == [w |-> "none", n |-> 0]

(***************************************************************************)
(* Then(x, Op) is Op(x), with x evaluated once: the handlers below chain   *)
(* many steps, each on the state the one before left.                     *)
(***************************************************************************)
Then(x, Op(_)) == CHOOSE y \in {Op(v) : v \in {x}} : TRUE

-----------------------------------------------------------------------------
(***************************************************************************)
(* cq_strides_cache.  get_from_global_pool() fills _retrieve_vec with C    *)
(* descriptors (the global pool is meant to be infinite); next_stride()    *)
(* refills an exhausted _retrieve_vec from the last cached block, or from  *)
(* the global pool; return_stride() moves a full _return_vec into         *)
(* _block_vec and, past MAX_CACHED_BLOCKS - 1 blocks, gives that block     *)
(* back to the global pool.  fromPool counts descriptors taken from the    *)
(* global pool and not given back.                                         *)
(***************************************************************************)
\* assign_retrieve_vec_ptrs(): _retrieve_vec is full again.
assign_retrieve_vec_ptrs(s) == [s EXCEPT !.cache.r = C]

\* assign_return_vec_ptrs(): _return_vec is empty again.
assign_return_vec_ptrs(s) == [s EXCEPT !.cache.f = 0]

get_from_global_pool(s) == assign_retrieve_vec_ptrs([s EXCEPT !.fromPool = @ + C])

next_stride_noblockdec(s) ==
    LET t == CASE s.cache.r > 0 -> s
               [] s.cache.b > 0 -> assign_retrieve_vec_ptrs(s)
               [] OTHER -> get_from_global_pool(s)
    IN [t EXCEPT !.cache.r = @ - 1]

next_stride(s) ==
    LET t == CASE s.cache.r > 0 -> s
               [] s.cache.b > 0 -> assign_retrieve_vec_ptrs([s EXCEPT !.cache.b = @ - 1])
               [] OTHER -> get_from_global_pool(s)
    IN [t EXCEPT !.cache.r = @ - 1]

return_stride_noassign(s) ==
    LET t == IF s.cache.f < C THEN s
             ELSE IF s.cache.b + 1 >= MAX_BLOCKS
                  THEN [s EXCEPT !.fromPool = @ - C]
                  ELSE [s EXCEPT !.cache.b = @ + 1]
    IN [t EXCEPT !.cache.f = @ + 1]

return_stride(s) ==
    LET t == IF s.cache.f < C THEN s
             ELSE assign_return_vec_ptrs(
                    IF s.cache.b + 1 >= MAX_BLOCKS
                    THEN [s EXCEPT !.fromPool = @ - C]
                    ELSE [s EXCEPT !.cache.b = @ + 1])
    IN [t EXCEPT !.cache.f = @ + 1]

-----------------------------------------------------------------------------
(***************************************************************************)
(* reclaim_recv_buffer_helper() for a chain of strides whose last          *)
(* reference is dropped: each stride takes its strides_num off its WQE's   *)
(* count with add_ref_count(), which returns the count before the          *)
(* addition; when that equals strides_num the stride was the last and the  *)
(* WQE goes back to the rx pool (cq_mgr::reclaim_recv_buffer_helper).  The *)
(* descriptor then returns to the cache.                                   *)
(***************************************************************************)
ReclaimStride(s, x) ==
    LET old == s.ref[x.w]
        t == [s EXCEPT !.ref[x.w] = old - x.n,
                       !.rxPool = IF x.n = old THEN @ \cup {x.w} ELSE @]
    IN return_stride(t)

RECURSIVE reclaim_recv_buffer_helper(_, _)
reclaim_recv_buffer_helper(s, chain) ==
    IF chain = <<>> THEN s
    ELSE reclaim_recv_buffer_helper(ReclaimStride(s, Head(chain)), Tail(chain))

(***************************************************************************)
(* set_current_hot_buffer(): the WQE at the RQ tail becomes the hot buffer *)
(* with a reference per stride; FALSE when nothing is posted.              *)
(***************************************************************************)
set_current_hot_buffer_noref(s) == [s EXCEPT !.hot = Head(s.rq)]

set_current_hot_buffer(s) ==
    [s EXCEPT !.hot = Head(s.rq), !.ref[Head(s.rq)] = STRIDES]

(***************************************************************************)
(* strq_cqe_to_mem_buff_desc(): a packet or filler CQE (MLX5_CQE_RESP_SEND)*)
(* gives strides_num from byte_cnt and adds its strides to the bytes       *)
(* consumed of the WQE; an error CQE is a filler whose strides_num is the  *)
(* CQE's field, or the whole WQE when that is 0, and marks the whole WQE   *)
(* consumed.  The WQE is complete once all its strides are consumed.       *)
(* Returns [s, n |-> strides_num, filler, status, complete].               *)
(***************************************************************************)
strq_cqe_to_mem_buff_desc_nozero(s, e) ==
    LET cons == IF e.kind = "err" THEN STRIDES ELSE s.consumed + e.n
    IN [s |-> [s EXCEPT !.consumed = IF cons >= STRIDES THEN 0 ELSE cons],
        n |-> e.n, filler |-> e.kind # "pkt",
        status |-> IF e.kind = "err" THEN "ERR" ELSE "OK",
        complete |-> cons >= STRIDES]

strq_cqe_to_mem_buff_desc(s, e) ==
    LET n == IF e.kind = "err" /\ e.n = 0 THEN STRIDES ELSE e.n
        cons == IF e.kind = "err" THEN STRIDES ELSE s.consumed + n
    IN [s |-> [s EXCEPT !.consumed = IF cons >= STRIDES THEN 0 ELSE cons],
        n |-> n, filler |-> e.kind # "pkt",
        status |-> IF e.kind = "err" THEN "ERR" ELSE "OK",
        complete |-> cons >= STRIDES]

(***************************************************************************)
(* poll(status, buff_stride): makes sure of a hot WQE and a hot stride,    *)
(* then consumes one CQE.  A completed WQE leaves the RQ and is returned;  *)
(* a packet's stride is handed to the caller; a filler's or an error's is  *)
(* reclaimed at once.  Returns [s, stride, wqe] (NoStride / "none" when    *)
(* there is none) and status.                                              *)
(***************************************************************************)
AfterCqe(hw, d) ==
    LET x == [w |-> hw, n |-> d.n]
        u == [IF d.complete THEN [d.s EXCEPT !.rq = Tail(@), !.hot = "none"] ELSE d.s
              EXCEPT !.hotStride = FALSE]
    IN [s |-> IF d.filler THEN reclaim_recv_buffer_helper(u, <<x>>) ELSE u,
        stride |-> IF d.filler THEN NoStride ELSE x,
        wqe |-> IF d.complete THEN hw ELSE "none",
        status |-> d.status]

TakeHotStride(s) == IF s.hotStride THEN s ELSE [next_stride(s) EXCEPT !.hotStride = TRUE]

PollCqe(s) ==
    IF s.cqes = <<>>
    THEN [s |-> s, stride |-> NoStride, wqe |-> "none", status |-> "OK"]
    ELSE Then(strq_cqe_to_mem_buff_desc([s EXCEPT !.cqes = Tail(@)], Head(s.cqes)),
              LAMBDA d : AfterCqe(s.hot, d))

poll(s) ==
    IF s.hot = "none" /\ s.rq = <<>>
    THEN [s |-> s, stride |-> NoStride, wqe |-> "none", status |-> "OK"]
    ELSE Then(Then(IF s.hot = "none" THEN set_current_hot_buffer(s) ELSE s, TakeHotStride),
              PollCqe)

-----------------------------------------------------------------------------
(***************************************************************************)
(* process_strq_cq_element_rx() and the hand-off that follows it: a stride *)
(* with an error status is reclaimed; a good one goes up the stack (to a   *)
(* socket, or to m_rx_queue on its way there), which holds it until it    *)
(* gives it back.  held is the bag of strides the stack holds.             *)
(***************************************************************************)
process_strq_cq_element_rx(s, x, status) ==
    IF status # "OK" THEN reclaim_recv_buffer_helper(s, <<x>>)
    ELSE [s EXCEPT !.held = @ (+) SetToBag({x})]

\* The wce counter is only compared with WCE_MAX, so it is kept saturated.
Counted(s, k) == [s EXCEPT !.wce = IF @ + k > WCE_MAX THEN WCE_MAX ELSE @ + k]

(***************************************************************************)
(* poll_and_process_element_rx() (socketxtreme off): poll up to BATCH_MAX  *)
(* strides; a completed WQE alone does not count; stop, marking the CQ     *)
(* drained, when poll() returns neither a stride nor a WQE.                *)
(***************************************************************************)
RECURSIVE PollBatch(_, _)
PollBatch(s, ret) ==
    IF ret >= BATCH_MAX THEN [s |-> s, ret |-> ret]
    ELSE Then(poll(s), LAMBDA p :
         CASE p.stride # NoStride ->
                Then(process_strq_cq_element_rx(p.s, p.stride, p.status),
                     LAMBDA t : PollBatch(t, ret + 1))
           [] p.wqe # "none" -> PollBatch(p.s, ret)
           [] OTHER -> [s |-> [p.s EXCEPT !.drained = TRUE], ret |-> ret])

(***************************************************************************)
(* poll_and_process_element_rx_sockextreme(): a single poll; a stride is   *)
(* counted, then processed.  The CQ is never marked drained here.          *)
(***************************************************************************)
poll_and_process_element_rx_sockextreme(s) ==
    Then(poll(s), LAMBDA p :
         IF p.stride = NoStride THEN p.s
         ELSE process_strq_cq_element_rx(Counted(p.s, 1), p.stride, p.status))

\* The mode m_b_sysvar_enable_socketxtreme selects the loop.
poll_and_process_element_rx(s) ==
    IF s.sxtreme THEN poll_and_process_element_rx_sockextreme(s)
    ELSE Then(PollBatch(s, 0), LAMBDA b : Counted(b.s, b.ret))

(***************************************************************************)
(* poll_and_process_element_rx(p_desc_lst), socketxtreme only: a single    *)
(* poll whose good stride is handed to the caller's list; unlike the       *)
(* variant above it does not count the stride in m_n_wce_counter.          *)
(***************************************************************************)
poll_and_process_element_rx_desc(s) ==
    Then(poll(s), LAMBDA p :
         IF p.stride = NoStride THEN p.s
         ELSE process_strq_cq_element_rx(p.s, p.stride, p.status))

(***************************************************************************)
(* drain_and_proccess_helper(): a stride is counted and processed; while   *)
(* recycling (QP teardown) a good stride is dropped and reclaimed.         *)
(***************************************************************************)
drain_and_proccess_helper(s, x, recycle, status) ==
    IF x = NoStride THEN s
    ELSE IF recycle /\ status = "OK" THEN reclaim_recv_buffer_helper(Counted(s, 1), <<x>>)
    ELSE process_strq_cq_element_rx(Counted(s, 1), x, status)

(***************************************************************************)
(* The drain loop, the same in drain_and_proccess_sockextreme() and in the *)
(* socketxtreme-off branch of drain_and_proccess() (which also flushes GRO *)
(* and the poll sequence number, not modelled): poll while fewer than      *)
(* WCE_MAX strides were counted since the last full pass and the CQ was    *)
(* not found drained, or without limit when recycling; finding the CQ      *)
(* empty marks it drained and returns; otherwise the counter and the mark  *)
(* are reset.                                                              *)
(***************************************************************************)
RECURSIVE DrainLoop(_, _)
DrainLoop(s, recycle) ==
    IF ~((s.wce < WCE_MAX /\ ~s.drained) \/ recycle)
    THEN [s EXCEPT !.wce = 0, !.drained = FALSE]
    ELSE Then(poll(s), LAMBDA p :
         IF p.stride = NoStride /\ p.wqe = "none" THEN [p.s EXCEPT !.drained = TRUE]
         ELSE Then(drain_and_proccess_helper(p.s, p.stride, recycle, p.status),
                   LAMBDA t : DrainLoop(t, recycle)))

drain_and_proccess_sockextreme(s, recycle) == DrainLoop(s, recycle)

drain_and_proccess(s, recycle) ==
    IF s.sxtreme THEN drain_and_proccess_sockextreme(s, recycle)
    ELSE DrainLoop(s, recycle)

(***************************************************************************)
(* clean_cq(): poll until the CQ gives nothing; good strides are queued on *)
(* m_rx_queue.                                                             *)
(***************************************************************************)
RECURSIVE clean_cq(_)
clean_cq(s) ==
    Then(poll(s), LAMBDA p :
    CASE p.stride # NoStride ->
           Then(process_strq_cq_element_rx(p.s, p.stride, p.status), clean_cq)
      [] p.wqe # "none" -> clean_cq(p.s)
      [] OTHER -> p.s)

-----------------------------------------------------------------------------
(***************************************************************************)
(* The state.  Initially the cache has taken its first C strides from the  *)
(* global pool (the cq_strides_cache constructor) and every WQE is in the  *)
(* rx pool, waiting to be posted.  Whether socketxtreme is enabled is read *)
(* once from the environment and fixed for the process.                   *)
(***************************************************************************)
Stride == [w : WQES, n : 1..STRIDES]
Cqe == [kind : {"pkt", "filler", "err"}, n : 0..STRIDES, last : BOOLEAN]

Init ==
  \E sx \in BOOLEAN :
    /\ sw = [rq |-> <<>>, hot |-> "none", hotStride |-> FALSE, consumed |-> 0,
             ref |-> [w \in WQES |-> 0], rxPool |-> WQES,
             cache |-> [r |-> C, f |-> 0, b |-> 0], fromPool |-> C,
             held |-> EmptyBag, cqes |-> <<>>, wce |-> 0, drained |-> FALSE,
             sxtreme |-> sx]
    /\ pos = 0

(***************************************************************************)
(* The device writes the next CQE for the WQE it is filling: the first     *)
(* posted WQE not yet completed by a CQE in the queue.  A packet takes up  *)
(* to MAX_PKT of the strides left; a filler takes the rest of a started    *)
(* WQE; a flush or error CQE ends the WQE.                                 *)
(***************************************************************************)
Filling == 1 + Len(SelectSeq(sw.cqes, LAMBDA e : e.last))

Left == STRIDES - pos

DeviceCqes ==
    {[kind |-> "pkt", n |-> k, last |-> k = Left]
        : k \in 1..(IF MAX_PKT < Left THEN MAX_PKT ELSE Left)}
    \cup (IF pos > 0 THEN {[kind |-> "filler", n |-> Left, last |-> TRUE]} ELSE {})
    \cup (IF pos = 0 \/ FLUSH_MIDWQE
          THEN {[kind |-> "err", n |-> k, last |-> TRUE] : k \in ERR_STRIDES} ELSE {})

Device ==
    /\ Filling <= Len(sw.rq)
    /\ Len(sw.cqes) < CQ_MAX
    /\ \E e \in DeviceCqes :
         /\ sw' = [sw EXCEPT !.cqes = Append(@, e)]
         /\ pos' = IF e.last THEN 0 ELSE pos + e.n

\* The ring's poll of this CQ (cq_mgr::poll_and_process_element_rx).
PollAndProcess ==
    /\ sw' = poll_and_process_element_rx(sw)
    /\ UNCHANGED pos

\* The internal thread's drain, or the forced drain of QP teardown.
Drain ==
    /\ \E recycle \in BOOLEAN : sw' = drain_and_proccess(sw, recycle)
    /\ UNCHANGED pos

\* The socketxtreme ring's poll that fills the caller's descriptor list.
PollDesc ==
    /\ sw.sxtreme
    /\ sw' = poll_and_process_element_rx_desc(sw)
    /\ UNCHANGED pos

CleanCq ==
    /\ sw' = clean_cq(sw)
    /\ UNCHANGED pos

(***************************************************************************)
(* The stack drops its last reference to a stride: the ring hands it back  *)
(* through cq_mgr::reclaim_recv_buffers() to reclaim_recv_buffer_helper(). *)
(***************************************************************************)
Release(x) ==
    /\ x \in BagToSet(sw.held)
    /\ sw' = reclaim_recv_buffer_helper([sw EXCEPT !.held = @ (-) SetToBag({x})], <<x>>)
    /\ UNCHANGED pos

(***************************************************************************)
(* The QP posts a WQE from the rx pool to the RQ (compensate_qp_poll_failed *)
(* and qp_mgr::post_recv, outside this file).                              *)
(***************************************************************************)
PostRecv ==
    /\ \E w \in sw.rxPool :
         sw' = [sw EXCEPT !.rxPool = @ \ {w}, !.rq = Append(@, w)]
    /\ UNCHANGED pos

Next == Device \/ PollAndProcess \/ PollDesc \/ Drain \/ CleanCq \/ PostRecv
        \/ \E x \in Stride : Release(x)

Spec == Init /\ [][Next]_vars

(***************************************************************************)
(* Fairness: the ring keeps polling, and the stack eventually gives back   *)
(* every stride it holds (an application that reads its sockets).  The    *)
(* device and the QP owe nothing.                                          *)
(***************************************************************************)
FairSpec == Spec /\ WF_vars(PollAndProcess) /\ \A x \in Stride : WF_vars(Release(x))

-----------------------------------------------------------------------------
TypeOK ==
    /\ sw.rq \in Seq(WQES) /\ sw.hot \in WQES \cup {"none"}
    /\ sw.hotStride \in BOOLEAN /\ sw.consumed \in 0..(STRIDES - 1)
    /\ sw.ref \in [WQES -> -STRIDES..STRIDES] /\ sw.rxPool \subseteq WQES
    /\ sw.cache \in [r : 0..C, f : 0..C, b : 0..(MAX_BLOCKS - 1)]
    /\ IsABag(sw.held) /\ BagToSet(sw.held) \subseteq Stride
    /\ sw.cqes \in Seq(Cqe) /\ sw.wce \in 0..WCE_MAX /\ sw.drained \in BOOLEAN
    /\ sw.sxtreme \in BOOLEAN
    /\ pos \in 0..(STRIDES - 1)

(***************************************************************************)
(* HeldIn(w): the strides of WQE w the stack still holds.  Posted: the WQEs *)
(* on the RQ.                                                               *)
(***************************************************************************)
HeldIn(w) == MapThenSumSet(LAMBDA x : CopiesIn(x, sw.held) * x.n,
                           {x \in BagToSet(sw.held) : x.w = w})

Posted == {sw.rq[i] : i \in DOMAIN sw.rq}

(***************************************************************************)
(* Every stride descriptor taken from the global pool is in exactly one    *)
(* place: _retrieve_vec, _return_vec, a cached block, the hot stride, or   *)
(* the stack.  next_stride() and return_stride() swap whole vectors in and *)
(* out of _block_vec and give blocks back to the global pool; a miscounted *)
(* swap loses or duplicates C descriptors at once.                         *)
(***************************************************************************)
StridesConserved ==
    sw.fromPool = sw.cache.r + sw.cache.f + sw.cache.b * C
                  + (IF sw.hotStride THEN 1 ELSE 0) + BagCardinality(sw.held)

(***************************************************************************)
(* The reference count of each WQE accounts for its strides: a WQE in the  *)
(* rx pool, or posted and not yet hot, has no stride in the stack; the hot *)
(* WQE counts its held strides and the strides the device has not yet     *)
(* reported; a completed WQE waiting for its strides counts exactly those *)
(* the stack holds, and there is at least one (else it was never given    *)
(* back).  It relates set_current_hot_buffer(), the consumed-bytes count  *)
(* of strq_cqe_to_mem_buff_desc() and the add_ref_count() test of          *)
(* reclaim_recv_buffer_helper(), run by different callers in any order.   *)
(***************************************************************************)
RefCountAccounts ==
    \A w \in WQES :
        CASE w \in sw.rxPool -> HeldIn(w) = 0
          [] w = sw.hot -> sw.ref[w] = HeldIn(w) + (STRIDES - sw.consumed)
          [] w \in Posted -> HeldIn(w) = 0
          [] OTHER -> sw.ref[w] = HeldIn(w) /\ HeldIn(w) > 0

(***************************************************************************)
(* A WQE goes back to the rx pool, from where it is posted again and       *)
(* overwritten by the device, only once no stride pointing into it is     *)
(* held: reclaim_recv_buffer_helper() frees it on the stride it calls the  *)
(* last.                                                                   *)
(***************************************************************************)
WqeFreedAfterLastStride == \A w \in sw.rxPool : HeldIn(w) = 0

(***************************************************************************)
(* Every completed WQE eventually returns to the rx pool once the stack    *)
(* gives its strides back: no WQE is stranded by a count that never meets  *)
(* the "last stride" test.                                                 *)
(***************************************************************************)
WqeEventuallyFree ==
    \A w \in WQES : (w \notin sw.rxPool /\ w \notin Posted) ~> (w \in sw.rxPool)

====
