# TLA+ models of the XLIO TCP input path and striding receive queue

This directory holds TLA+ models of `src/src/core/lwip/tcp_in.c`. That file is the receive side
of the lwIP-derived TCP engine in XLIO. The models come with TLC configurations that check them.
Every definition is translated from the C source. `PROJECT.json` maps each definition to the lines
it models. A second, separate model covers the striding-RQ completion queue of
`src/src/vma/dev/cq_mgr_mlx5_strq.cpp` (section 1b).

## 1. The system

`tcp_in.c` handles one inbound segment per call, start to finish. Only one segment is processed
per pcb at a time: the caller guarantees exclusive access (spec §5). Its parts:

| Part | Code | What it does |
|---|---|---|
| Header parser & demux | `L3_level_tcp_input` 116–286 | Parses the headers, builds `tcp_in_data` and dispatches on the pcb's bucket: active, LISTEN, TIME_WAIT or none. For an active pcb it calls `tcp_process`. It then runs the upcalls: error, sent, recv with data, recv with NULL for EOF. Any of these may abort and free the pcb (`goto aborted`). Last comes `tcp_output`. |
| State dispatcher | `tcp_process` 506–737 | RST acceptability, SYN in a synchronised state, then a switch on the state. Each state calls `tcp_receive` and reacts to `TF_GOT_FIN` and to the ACK of our FIN. |
| Segment receiver | `tcp_receive` 992–1648 | Phase A, with ACK: window update, dup-ACK and fast retransmit, new ACK trimming `unacked`/`unsent`, RTT. Phase B, with data or FIN: left-edge trim, window admission, in-sequence delivery with `ooseq` reconciliation and draining, out-of-sequence queueing. |
| Out-of-order queue manager | `tcp_oos_insert_segment` 746–776 and the walk at 1502–1632 | Places a copy of the segment on `ooseq` and trims its neighbours. |
| Retransmit-queue shrinker | `tcp_shrink_segment`, `tcp_shrink_zc_segment`, `ack_partial_or_whole_segment` 787–990 | Trims acknowledged bytes from the heads of `unacked`/`unsent`. |
| Time-wait handler | `tcp_timewait_input` 436–493, `tcp_pcb_reuse` 392–425 | RST ignored, RFC 6191 reuse on SYN (with `syn_tw_handled_cb`), RST for a SYN\|ACK, ACK of data or FIN. |
| Passive open | `tcp_listen_input` 300–387 | Clones a SYN_RCVD pcb from a SYN and answers it with a SYN\|ACK. |
| Option parser | `tcp_parseopt`, `tcp_parseopt_ts` 1658–1808 | MSS, window scale, timestamps. |

Outside this file are the collaborators: `tcp_output`, `tcp_pcb_purge`, the timers and the
`tcp_ack`/`tcp_ack_now` macros of `tcp_impl.h`. None of them are in this repository. The models
use their behaviour at the boundary the specification gives (spec §6) and mark them
`spec_modelled` in the map.

The other files under `src/` do not interact with the TCP input path: select/iomux, device and
ring glue, ARP and L2 helpers, the congestion "none" strategy, a netlink helper and a test fixture.
They are listed in `PROJECT.json` as `not_modelled`, each with its reason, except the striding-RQ
completion queue below.

### 1b. The striding-RQ completion queue

`cq_mgr_mlx5_strq` receives into WQEs of `_strides_num` strides each. The device writes one CQE
per packet (or a filler for the unused tail of a WQE, or an error CQE) against the WQE at the
RQ's tail. `poll()` makes that WQE the hot buffer (`set_current_hot_buffer` sets its reference
count to `_strides_num`), takes a stride descriptor from `cq_strides_cache` and fills it from
the CQE (`strq_cqe_to_mem_buff_desc`). A packet's stride goes up the stack; a filler's or an
error's is reclaimed at once. `reclaim_recv_buffer_helper` takes each returned stride's
`strides_num` off its WQE's count and, on the stride that finds the count equal to its own
`strides_num`, returns the WQE to the rx pool, from where it is posted again. The callers are
`poll_and_process_element_rx` (the ring's poll, batches of `m_n_sysvar_cq_poll_batch_max`),
`drain_and_proccess` (the internal thread, and the forced drain of QP teardown) and `clean_cq`.
All of them run under the ring lock, so each call is one atomic step in the model.
With socketxtreme enabled (`m_b_sysvar_enable_socketxtreme`, fixed for the process) the ring's
poll is `poll_and_process_element_rx_sockextreme` (one poll per call, the stride counted before it
is processed, the CQ never marked drained), the socketxtreme ring may also call the
`poll_and_process_element_rx(mem_buf_desc_t **)` overload (one poll, the stride handed to the
caller and not counted), and the drain is `drain_and_proccess_sockextreme`, the same loop
without the GRO flush and poll sequence number.

## 2. Modules

The modules are layered: the data half, the ACK half and the shrinker are pure operators from a
pcb record and a `tcp_in_data` record to their results. `TcpProcess` composes them into the
state switch, and two specifications drive that: `TcpInput` (the receiver) and `TcpSend`
(the sender and the connection life cycle).

| Module | Models | State and actions |
|---|---|---|
| `TcpSeg` | `tcp_impl.h` macros and `enum tcp_state` | u32 sequence arithmetic reduced to `SEQ_SPACE`; `TCP_SEQ_*` via the `(s32_t)` cast; the `rcv_wnd` u32 reduced to `WND_SPACE`; the segment record `[seqno, len, fin]`; `TCP_TCPLEN`. |
| `TcpOoseq` | the out-of-order queue manager | `tcp_oos_insert_segment` and the walk's four stop conditions (`SameStart`, `Before`, `Between`, `After`). `OoseqInsert` gives the queue after the out-of-sequence branch, with `copyOk` for a failed `tcp_seg_copy`. |
| `TcpReceive` | Phase B of `tcp_receive` | `LeftTrim`, `InWindow`, `WindowFit`, `DropCovered`/`TrimToHead`/`Reconcile`, `Accept`, the recursive `DrainOoseq`, `AckInSeq`, `OutOfSeq`, `ReceiveData`. |
| `TcpShrink` | the retransmit-queue shrinker | A send segment is `[seqno, len, p, fin, syn, zc]`, `p` the payload bytes of each pbuf. `tcp_shrink_segment` (`ShrinkFirst`, `StripFirst`, the recursive `FreeCovered`, `TrimCur`), `tcp_shrink_zc_segment` (`ZcFree`, `ZcTrim`), and `AckSegments` = `ack_partial_or_whole_segment` with its `acked` FIN correction and `snd_queuelen` count. |
| `TcpAck` | Phase A of `tcp_receive` | `UpdateWindow` with the persist decision, `OldAck` (duplicate ACKs, saturating u8 `dupacks`, `tcp_rexmit_fast` on the third), `NewAck` (acked, lastack, trim of `unacked`, timers), the invalid ACK, and `AckUnsent`, the walk over `unsent` that every ACK makes. |
| `TcpProcess` | `tcp_process`, the upcalls of `L3_level_tcp_input`, `tcp_listen_input`, `tcp_timewait_input`, `tcp_pcb_reuse` | `tcp_process(pcb, in, copyOk, ures)` returns `[pcb, in]` for every state; `Dispatch` runs the sent, recv and closed upcalls in the code's order with their aborts. `tcp_listen_input` and `tcp_pcb_reuse` set up the new connection (`Fresh`, `FromSyn`) and answer it (`AnswerSyn`); `Reusable` is the RFC 6191 test. `tcp_output` and `tcp_pcb_purge` are modelled from their documented behaviour. |
| `TcpInput` | the receiver | Variables `pcb`, `delivered` (the bytes the application accepted) and `finSignalled`. One action per call of `L3_level_tcp_input` on an arriving packet, plus the delayed-ACK timer. |
| `RcvStream` | the promise to the application | The stream is handed up in order, exactly once, with EOF after the last byte, or the connection goes away. |
| `TcpSend` | the sender | Variables `pcb`, `reported` (the bytes the sent upcalls reported) and `irs` (the peer's ISN in the current connection). Actions: `Arrive` (a peer segment through `L3_level_tcp_input`, by the pcb's bucket: LISTEN, TIME_WAIT or active), `AppOutput`, `Write` (`tcp_write`), `Close` (`tcp_close`), `Rto` (retransmission timeout). The last four are in `tcp_out.c`/`tcp.c`, outside the repository, and are modelled from the specification. |
| `TcpOptions` | `tcp_parseopt`, `tcp_parseopt_ts` | Both parsers as RECURSIVE operators over the option bytes, the bytes after the area included (the code reads the length byte before checking it lies in the area). A one-variable specification applies `tcp_parseopt` to a stream of SYN and non-SYN segments. `Reference` is a TLV walk over the items each area was built from. |
| `StrqCq` | `cq_mgr_mlx5_strq.cpp` | Variables `sw` (the CQ object, its stride cache as counts `r`/`f`/`b` of descriptors in `_retrieve_vec`, `_return_vec` and cached blocks, `fromPool`, the WQE reference counts, the RQ, the rx pool, the bag `held` of strides `[w, n]` the stack holds, the CQEs written) and `pos` (the device's progress in its WQE). The socketxtreme mode is a field of `sw` chosen at `Init`; `assign_retrieve_vec_ptrs`/`assign_return_vec_ptrs` reset the counts `r`/`f`. Actions: `Device` (writes a packet, filler or error CQE), `PollAndProcess` (dispatching on the mode), `PollDesc` (the socketxtreme-only overload), `Drain` (with or without recycling), `CleanCq`, `Release` (the stack returns a stride) and `PostRecv` (the QP reposts a WQE). |
| `MC_*` | | Model values and the instances: `MC_TcpInput` also maps `TcpInput` onto `RcvStream`. |

Each C function is modelled as a whole. For example, `Accept` covers the advance of `rcv_nxt`,
the shrinking of `rcv_wnd`, the hand-over of the payload and `TF_GOT_FIN`. Operators whose result
is used several times are evaluated once through `Then(x, Op)` (or `\E r \in {expr}` inside an
action), which keeps TLC's evaluation linear; it changes no value.

**Environment of `TcpInput`.** The peer sent `N` bytes and a FIN. Any segment whose payload is a
contiguous range of that stream can arrive at any time, with the FIN only when the segment ends at
the stream's end. This covers loss, duplication, reordering and resegmentation. A RST at any
offset `0..N+2` can arrive, and so can a retransmitted SYN. The packets carry no ACK flag, so
Phase A is skipped, as the code does (line 1005). `PEER_RESPECTS_WND` keeps the peer inside
`rcv_nxt + rcv_wnd`. The application may accept data (`ERR_OK`), refuse it (`ERR_MEM`) or abort
(`ERR_ABRT`).

**Environment of `TcpSend`.** We have written `INIT_SEGS` (a copied segment of three pbufs and a
zero-copy segment of two). The peer sends no data: ACKs of anything up to `snd_nxt` (and with
`BOGUS_ACKS` one beyond), any window of `WNDS`, its FIN at `irs+1`, its SYN or SYN|ACK, and a RST.
Any of these can arrive at any time, in any order, any number of times. A TIME_WAIT pcb may get an
old duplicate of the connection's SYN (seqno `irs`, timestamp not newer than `ts_recent`) or the
SYN of a new connection (seqno `irs+8`, any timestamp); timestamps are the relations
`older`/`same`/`newer` to `ts_recent`, which is all `Reusable` compares. The results of the clone,
SYN_RECEIVED, accept, connected, sent and `syn_tw_handled_cb` callbacks and of
`tcp_enqueue_flags` are chosen from the cfg's sets. When a new connection is made, the model
follows the new pcb (a listener itself never changes).

## 3. Runs

| Run | Config | Result | What it shows |
|---|---|---|---|
| `receive` | `MC_TcpInput.cfg` | pass, 1585 states | Under `FairSpec`: `TypeOK`, `OoseqWellFormed`, `RcvNxtMatchesDelivered`, `WindowAccounting`, `RcvProgressMonotone`, the refinement `DeliversStream` (= `RcvStream!Spec`) and `AllEventuallyReceived`, from ESTABLISHED, FIN_WAIT_1 or FIN_WAIT_2. |
| `send` | `MC_TcpSend.cfg` | pass, 94950 states | From SYN_SENT, SYN_RCVD or ESTABLISHED, with windows 0 and 5, timestamps on and off and aborting upcalls: `TypeOK`, `QueuelenAccounting`, `SendQueueCovers`, `SentMatchesAcked`. |
| `passive` | `MC_TcpSend_passive.cfg` | pass, 60689 states | From LISTEN through the handshake (every clone, SYN_RECEIVED and enqueue result), close, TIME_WAIT and reuse for a new SYN: `SendQueueCovers`, `SentMatchesAcked` over successive connections, and `OldSynNotReused`. |
| `strq` | `MC_StrqCq.cfg` | pass, 87403 states | In both socketxtreme modes, under `FairSpec`: `TypeOK`, `StridesConserved`, `RefCountAccounts`, `WqeEventuallyFree`, with error CQEs only for WQEs the device has not started. |
| `options` | `MC_TcpOptions.cfg` | pass, 168 states | `TypeOK` and `ParseMatchesReference` for every options area of up to two items, cut by the header length, on SYN and non-SYN segments. |
| `window_overrun` | `MC_TcpInput_overrun.cfg` | violation of `RcvWndBounded` | Finding 1. |
| `refused_data` | `MC_TcpInput_refused.cfg` | violation of `DeliversStream` | Finding 2. |
| `stale_acked` | `MC_TcpSend_stray.cfg` | violation of `SentMatchesAcked` | Finding 3. |
| `invalid_ack_trims_unsent` | `MC_TcpSend_bogus.cfg` | violation of `SendQueueCovers` | Finding 4. |
| `fin_unsent` | `MC_TcpSend_finunsent.cfg` | violation of `OurFinAcked` | Finding 5. |
| `synrcvd_without_synack` | `MC_TcpSend_reuse.cfg` | violation of `SynRcvdHasSyn` | Finding 6. |
| `strq_flush_midwqe` | `MC_StrqCq_flush.cfg` | violation of `WqeFreedAfterLastStride` | Finding 7. |

The properties:

- **OoseqWellFormed.** `ooseq` is sorted and non-overlapping; every entry is non-empty and lies
  strictly beyond `rcv_nxt`; only the last may carry the FIN.
- **RcvNxtMatchesDelivered.** `rcv_nxt` is IRS + 1 + (bytes handed up) + (1 if EOF signalled).
- **WindowAccounting.** `rcv_wnd = rcv_wnd_max - |delivered|`.
- **RcvProgressMonotone.** Across one call, `rcv_nxt` never moves back and the right edge never
  moves left.
- **DeliversStream.** `TcpInput` refines `RcvStream`.
- **AllEventuallyReceived.** Eventually the pcb is gone or the whole stream and EOF are delivered.
- **QueuelenAccounting.** `snd_queuelen` equals the pbufs on `unacked` and `unsent`.
- **SendQueueCovers.** Every unit of sequence space still owed to the peer (from `lastack` to the
  end of what was queued, FIN included) lies in exactly one segment of `unacked` or `unsent`.
- **SentMatchesAcked.** The sent upcalls report, over a connection, exactly the data bytes the
  peer acknowledged (`lastack` without the SYN and FIN units).
- **OldSynNotReused.** TIME_WAIT reuse never takes an old duplicate of the previous connection's
  SYN.
- **ParseMatchesReference.** `tcp_parseopt` has the effect of the reference TLV walk.
- **StridesConserved.** Every descriptor the stride cache took from the global pool is in exactly
  one of `_retrieve_vec`, `_return_vec`, a cached block, the hot stride or the stack.
- **RefCountAccounts.** A WQE in the rx pool or posted and not yet hot has no stride in the stack;
  the hot WQE's count is its held strides plus the strides not yet consumed; a completed WQE's
  count is exactly its held strides, and there is at least one.
- **WqeEventuallyFree.** Every completed WQE returns to the rx pool, given that the ring keeps
  polling and the stack gives its strides back.
- **OurFinAcked, SynRcvdHasSyn, RcvWndBounded, WqeFreedAfterLastStride.** See the findings.

### Mutants

Each property of a passing run is broken, under that run's cfg, by a plausible bug in a mapped
definition (`PROJECT.json`, "mutants"): a swapped trim, a missing right trim, a drain that does not
chain, a missing FIN correction, a stale tcplen, a left trim that does not advance, a window off
by one, a FIN not taken out of `acked`, uncounted freed pbufs, a shrink that does not advance
`seqno`, the SYN unit not taken out of `acked` on accept, an uncapped window shift, a bad-length
test off by one, reuse without `tcp_pcb_recycle`, `ts_recent <= tsval` for `<`, a block swapped
into `_retrieve_vec` without decrementing `_block_vec_used`, an error CQE whose 0 stride count is
kept, and a hot buffer whose reference count is not set.

### Findings

1. **Window overrun via an empty ooseq (code bug, line 1503).** With `ooseq` empty the
   out-of-sequence copy is queued without the window check the append path has (1600–1625). When
   the gap fills, `rcv_wnd -= TCP_TCPLEN(cseg)` (1459) underflows: `rcv_nxt = 13`, `rcv_wnd = 3`,
   `[14,17)` queued, `[13,14)` arrives, 4 bytes delivered against a window of 3.
2. **Refused data is dropped, not stored (lines 228–231).** The comment says "store it"; the code
   credits the window and frees the pbuf after `rcv_nxt` acknowledged it, and EOF follows.
3. **Stale `pcb->acked` (code bug, line 204).** `acked` is reset only in `tcp_receive`;
   `tcp_process` returns early for an unacceptable RST (538) or a SYN in a synchronised state
   (546), and the sent upcall reports the previous ACK again (2 bytes acked, 4 reported).
4. **An invalid ACK trims `unsent` (line 1196).** An ACK beyond `snd_nxt` is answered with an
   empty ACK, but the walk over `unsent` still runs and frees bytes never sent.
5. **FIN_WAIT_1 leaves on `ackno == snd_nxt` (line 699).** With a zero window the FIN is still on
   `unsent`; the same test is used in CLOSING (716) and LAST_ACK (726).
6. **A failed registration leaves a SYN_RCVD pcb with no SYN|ACK (lines 374 and 416).** When
   `TCP_EVENT_SYN_RECEIVED` fails, `tcp_listen_input` returns with the cloned pcb set up in
   SYN_RCVD and without `tcp_abandon`. When `syn_tw_handled_cb` fails, `tcp_pcb_reuse` returns
   after `tcp_pcb_recycle` and `set_tcp_state(SYN_RCVD)`, and the caller ignores the result (271).
   Both returns come before `tcp_enqueue_flags`. The spec says the new pcb is abandoned, and the
   recycling aborted, on failure. TLC's shortest trace: LISTEN, a SYN, the registration returns
   `ERR_MEM`; the reuse path shows the same after a connection reaches TIME_WAIT.
7. **A flush CQE over-counts a started WQE (code bug, `cq_mgr_mlx5_strq.cpp` line 361).** An
   error CQE's stride field is reserved; read as 0, `strq_cqe_to_mem_buff_desc` makes it
   `_strides_num` and marks the whole WQE consumed. If the WQE already gave a packet to the
   stack, the error stride's `add_ref_count(-_strides_num)` returns exactly `_strides_num`, so the
   WQE goes back to the rx pool, to be posted and overwritten, while the packet's stride still
   points into it. TLC: a WQE posted, a 1-stride packet and a flush CQE written, one poll. Had the
   packet's stride been returned first, the count would go negative and the WQE never come back.
   The count should drop by the strides not yet consumed. (This assumes the device flushes a
   partly filled striding WQE with one error CQE; `FLUSH_MIDWQE` turns that on.)

## 4. Bounds and why they are enough

- **`TcpInput`: `SEQ_SPACE = 16`, `IRS = 12`, `N = 5`, window 6.** The stream crosses the wrap of
  the sequence space; `2*(N+2) < SEQ_SPACE` keeps every offset within half the space. The bounds
  give queues of several segments, every placement case of the walk, covering and partial
  in-sequence segments and a FIN in and out of order. 
- **`TcpSend`: `SEQ_SPACE = 32`, `ISS = 29`.** Our data crosses the wrap. Two segments of
  different kinds (three pbufs copied, two pbufs zero-copy) give every shrinker case: a partial
  ACK inside the first pbuf, freed middle pbufs, a trim of a later pbuf, whole segments, and the
  FIN segment. `DUPACK_SPACE = 8` (the u8 counter reduced) lets `dupacks` reach the third
  duplicate and saturate. Windows 0 and 5 give zero-window and partial sends. The `passive` run
  keeps window 5 and a listener that enables timestamps (the SYN may carry one or not), to stay
  within minutes across successive connections; the old SYN at `irs` lies behind `rcv_nxt` and
  the new one at `irs+8` beyond it.
- **`TcpOptions`.** Items: EOL, NOP, MSS 0/536/1000/9000, WS 2/15, TS, two unknown kinds and
  four malformed forms, lists of up to two, padded with NOPs, cut at every header length the
  area allows. This reaches every arm of the loop, the area boundary and the read past it.
- **`StrqCq`: two WQEs of three strides, packets of up to two strides, vectors of two
  descriptors, batches and `WCE_MAX` of two, up to three CQEs ahead.** `CQ_CACHE_MIN_STRIDES` is
  16 in the code; what matters is that more strides circulate than a vector holds, so the cache
  fills `_return_vec`, stores blocks, reaches `MAX_CACHED_BLOCKS` and gives one back, and swaps a
  block into an empty `_retrieve_vec`. Two WQEs let the device run ahead of the poller and a WQE be
  reposted while the other's strides are held. Three strides give WQEs of one packet, of two
  packets, and of a packet and a filler.
- **Violation runs** use the smallest bounds that show each violation.

## 5. Fairness

`TcpInput`'s `FairSpec` adds `WF_vars(Retransmission)`: the peer resends from `rcv_nxt` until a
copy arrives. This is TCP retransmission on the peer's side, an assumption about the peer and
the network; the code does not provide it. No fairness is assumed for the application, for lost
packets or in `TcpSend`.

`StrqCq`'s `FairSpec` assumes the ring keeps calling `poll_and_process_element_rx` (weak fairness:
the progress engine polls while it can) and that the stack eventually gives back each stride it
holds (weak fairness of `Release` per stride: an application that reads its sockets). Neither the
device nor the QP's reposting owes anything.

## 6. Not modelled

- **`tcp_out.c` and `tcp.c`** (`tcp_output`, `tcp_enqueue_flags`, `tcp_write`, `tcp_close`,
  `tcp_pcb_recycle`, the timers) are not in the repository; they are modelled from the spec and
  marked `spec_modelled`. `tcp_send_fin` setting the FIN on the last `unsent` segment is left
  out: the FIN is always its own segment.
- **RST acceptability (line 520)**: `TCP_SEQ_BETWEEN(seqno, rcv_nxt, rcv_nxt + rcv_wnd)` also
  accepts a RST one past the window, where the spec says "within the current receive window".
  The receiver model delivers such RSTs; no run restates the guard.
- **PAWS**: XLIO has no PAWS check, and the models carry no segments of an old incarnation into
  a reused pcb.
- **`snd_scale` on reuse**: whether `tcp_pcb_recycle` clears the window-scale state cannot be
  read from the repository.
- **Options in `TcpSend`**: the handshake uses only the timestamp flag; the option bytes are
  checked in `TcpOptions`.
- RTT estimation, congestion control, `nrtx` and the RTO value, which no property reads.
- IP header parsing and pbuf layout; `tcp_update_rcv_ann_wnd` (read by the output path only);
  `tcp_recved`; the 2MSL timer.
- **Striding RQ.** The destructors, whose loop `while (_block_vec_used-- > 1U)` (line 68) never gives back
  `_block_vec[0]` and so leaks a vector of descriptors per CQ; `add_qp_rx` (line 609), which drops
  the hot stride without returning it (whether the base class returned it first is not visible);
  `mem_buf_desc_return_to_owner` and the `MLX5_CQE_INVALID`/`RESP_WR_IMM` CQEs, which the device
  does not produce here; chains of strides (each return is one stride); `process_recv_queue`,
  `compensate_qp_poll_failed` and the debt counter, which live in `cq_mgr`/`qp_mgr`.
- **The option parsers' disagreement (line 1683).** `tcp_parseopt_ts` skips a malformed MSS or
  window-scale option by its length byte where `tcp_parseopt` stops, and takes the first of two
  timestamps where `tcp_parseopt` takes the last, so the reuse test (456) can decide on a
  timestamp `tcp_pcb_reuse` (403) never records. An earlier run of `MC_TcpOptions` showed it; no
  current run checks it.
- **`select()` multiplexing (`select_call.cpp`, `io_mux_call.h`).** The driver that sequences
  these handlers, `io_mux_call::call()`, is in `io_mux_call.cpp`, which is not in the repository;
  only its header comment describes the polling and blocking loops. Without it the order in which
  `prepare_to_poll`, `wait_os`, `wait` and the `set_*_ready` calls run would have to be invented.
  One hazard found while reading `select_call::wait()` is recorded in `PROJECT.json`: with a signal
  mask, `pselect` is given `m_nfds` rather than `m_nfds_with_cq` (line 259), so the CQ epoll fd set
  at line 236 is not watched when it is at or above `m_nfds`. A blocked `pselect()` then misses CQ
  events until an OS fd or the timeout wakes it. If the CQ fd's bit lies in an fd_set word past
  `m_nfds`, the kernel leaves it set, and lines 272-275 count it off the OS's result.
- The files listed as `not_modelled` in `PROJECT.json`.

Next: liveness of the sender (under retransmission and a peer that acknowledges, the queues
drain), and a composition of sender and receiver.
