-------------------------- MODULE UploadClientProofs --------------------------
(***************************************************************************)
(* Proofs about ApiClient and UploadClient for any number of runs, parts,  *)
(* part workers and expiries.                                              *)
(***************************************************************************)
EXTENDS UploadClient, TLAPS

-----------------------------------------------------------------------------
(* The API client.                                                         *)

\* A request on its way belongs to a call that waits for it or was aborted,
\* and an answer to one that waits for it.
CallInv ==
  \A c \in Calls :
    /\ wire[c] # 0 => call[c] \in {"pending", "failed"}
    /\ answer[c] # "none" => call[c] = "pending" /\ wire[c] = 0

\* One refresh is out at a time and carries the tab's cookie; until a grant is
\* lost the server is at that cookie, or one ahead while a grant is on its way.
RefreshInv ==
  /\ \A c \in Calls : refresh[c] # "none" => refreshInFlight = c
  /\ \A c \in Calls : refresh[c] \in {"sent", "granted"} => refreshGen[c] = cookie
  /\ ~grantLost =>
       /\ ~revoked
       /\ \A c \in Calls : refresh[c] = "granted" => issued = cookie + 1
       /\ (\A c \in Calls : refresh[c] # "granted") => issued = cookie

\* What a step of the API client can do to a call.
ApiEffect ==
  \A d \in Calls :
    /\ call'[d] = "idle" <=> call[d] = "idle"
    /\ call[d] \in {"ok", "failed"} => call'[d] = call[d]
    /\ call'[d] = "ok" => call[d] = "ok" \/ answer[d] = "ok"
    /\ answer'[d] = "ok" => answer[d] = "ok"

\* A step of the API client keeps its types and the calls in order.
LEMMA ApiCalls ==
  ASSUME ApiTypeOK, CallInv, NEW c \in Calls, NEW dead, ApiStep(c, dead)
  PROVE  ApiTypeOK' /\ CallInv' /\ ApiEffect
<1>1. CASE receive(c)
  <2>1. CASE answer[c] = "unauthorized" /\ ~retried[c]
    <3>1. /\ call' = [call EXCEPT ![c] = "waiting"] /\ answer' = [answer EXCEPT ![c] = "none"]
          /\ beginRefresh(c) /\ UNCHANGED <<retried, wire, session>> /\ call[c] = "pending" /\ answer[c] # "none"
      BY <1>1, <2>1 DEF receive
    <3>2. ApiTypeOK'
      BY <3>1 DEF beginRefresh, session, ApiTypeOK, CallState
    <3>3. CallInv' /\ ApiEffect
      BY <3>1 DEF CallInv, ApiEffect, ApiTypeOK
    <3> QED BY <3>2, <3>3
  <2>2. CASE ~(answer[c] = "unauthorized" /\ ~retried[c])
    <3>1. /\ call' = [call EXCEPT ![c] = IF answer[c] = "ok" THEN "ok" ELSE "failed"]
          /\ retried' = [retried EXCEPT ![c] = FALSE] /\ answer' = [answer EXCEPT ![c] = "none"]
          /\ UNCHANGED <<wire, refreshes, session>> /\ call[c] = "pending" /\ answer[c] # "none"
      BY <1>1, <2>2 DEF receive, Settle
    <3>2. ApiTypeOK'
      BY <3>1 DEF refreshes, session, ApiTypeOK, CallState
    <3>3. CallInv' /\ ApiEffect
      BY <3>1 DEF CallInv, ApiEffect, ApiTypeOK
    <3> QED BY <3>2, <3>3
  <2> QED BY <2>1, <2>2
<1>2. CASE network_error(c)
  <2>1. ApiTypeOK'
    BY <1>2 DEF network_error, Settle, refreshes, session, ApiTypeOK, CallState
  <2>2. CallInv' /\ ApiEffect
    BY <1>2 DEF network_error, Settle, CallInv, ApiEffect, ApiTypeOK
  <2> QED BY <2>1, <2>2
<1>3. CASE serve_unauthorized(c)
  <2>1. ApiTypeOK'
    BY <1>3 DEF serve_unauthorized, Serve, refreshes, session, ApiTypeOK
  <2>2. CallInv' /\ ApiEffect
    BY <1>3 DEF serve_unauthorized, Serve, CallInv, ApiEffect, ApiTypeOK
  <2> QED BY <2>1, <2>2
<1>4. CASE serve_refresh(c)
  <2>1. /\ issued' \in Nat /\ revoked' \in BOOLEAN
        /\ refresh' \in [Calls -> {"none", "sent", "granted", "refused"}]
    <3>1. CASE refreshGen[c] = issued /\ ~revoked
      BY <1>4, <3>1 DEF serve_refresh, ApiTypeOK
    <3>2. CASE ~(refreshGen[c] = issued /\ ~revoked)
      BY <1>4, <3>2 DEF serve_refresh, ApiTypeOK
    <3> QED BY <3>1, <3>2
  <2>2. UNCHANGED <<requests, refreshInFlight, awaits, refreshGen, cookie, expired, grantLost>>
    BY <1>4 DEF serve_refresh
  <2>3. ApiTypeOK'
    BY <2>1, <2>2 DEF requests, ApiTypeOK
  <2>4. CallInv' /\ ApiEffect
    BY <2>2 DEF requests, CallInv, ApiEffect
  <2> QED BY <2>3, <2>4
<1>5. ASSUME NEW b \in BOOLEAN, Release(c, b, dead), cookie' \in Nat
      PROVE  /\ call' \in [Calls -> CallState] /\ retried' \in [Calls -> BOOLEAN]
             /\ wire' \in [Calls -> Nat] /\ answer' = answer
             /\ refreshInFlight' \in Calls \cup {NoCall}
             /\ awaits' \in [Calls -> Calls \cup {NoCall}]
             /\ refresh' \in [Calls -> {"none", "sent", "granted", "refused"}]
             /\ refreshGen' \in [Calls -> Nat]
             /\ CallInv' /\ ApiEffect
  <2> DEFINE again == IF b THEN Waiters(c) \ dead ELSE {}
  <2>1. again \subseteq Waiters(c) /\ Waiters(c) \subseteq {d \in Calls : call[d] = "waiting"}
    BY DEF Waiters
  <2>2. /\ call' = [d \in Calls |-> IF d \in again THEN "pending"
                              ELSE IF d \in Waiters(c) THEN "failed" ELSE call[d]]
        /\ wire' = [d \in Calls |-> IF d \in again THEN cookie' ELSE wire[d]]
        /\ retried' = [d \in Calls |-> retried[d] \/ d \in again]
        /\ answer' = answer
    BY <1>5 DEF Release
  <2> HIDE DEF again
  <2>3. call' \in [Calls -> CallState] /\ retried' \in [Calls -> BOOLEAN] /\ wire' \in [Calls -> Nat]
    BY <1>5, <2>2 DEF ApiTypeOK, CallState
  <2>4. /\ refreshInFlight' \in Calls \cup {NoCall}
        /\ awaits' \in [Calls -> Calls \cup {NoCall}]
        /\ refresh' \in [Calls -> {"none", "sent", "granted", "refused"}]
        /\ refreshGen' \in [Calls -> Nat]
    BY <1>5 DEF Release, ApiTypeOK
  <2>5. CallInv' /\ ApiEffect
    BY <2>1, <2>2 DEF CallInv, ApiEffect
  <2> QED BY <2>2, <2>3, <2>4, <2>5
<1>6. CASE receive_refresh(c, dead)
  <2>1. cookie' \in Nat
    BY <1>6 DEF receive_refresh, ApiTypeOK
  <2>2. Release(c, refresh[c] = "granted", dead) /\ UNCHANGED <<issued, expired, revoked, grantLost>>
    BY <1>6 DEF receive_refresh
  <2> QED BY <1>5, <2>1, <2>2 DEF ApiTypeOK
<1>7. CASE refresh_error(c, dead)
  <2>1. /\ cookie' \in Nat /\ grantLost' \in BOOLEAN
        /\ Release(c, FALSE, dead) /\ UNCHANGED <<cookie, issued, expired, revoked>>
    BY <1>7 DEF refresh_error, ApiTypeOK
  <2> QED BY <1>5, <2>1 DEF ApiTypeOK
<1> QED BY <1>1, <1>2, <1>3, <1>4, <1>6, <1>7 DEF ApiStep

\* A step of the API client keeps the refresh and the session in agreement.
LEMMA ApiRefreshes ==
  ASSUME ApiTypeOK, RefreshInv, NEW c \in Calls, NEW dead, ApiStep(c, dead)
  PROVE  RefreshInv'
<1>1. CASE receive(c)
  <2>1. CASE UNCHANGED refreshes
    BY <1>1, <2>1 DEF receive, refreshes, session, RefreshInv
  <2>2. CASE beginRefresh(c) /\ refreshInFlight = NoCall
    <3>1. \A d \in Calls : refresh[d] = "none"
      BY <2>2, ApiAssumption DEF RefreshInv
    <3> QED BY <1>1, <2>2, <3>1 DEF receive, beginRefresh, session, RefreshInv, ApiTypeOK
  <2>3. CASE beginRefresh(c) /\ refreshInFlight # NoCall
    BY <1>1, <2>3 DEF receive, beginRefresh, session, RefreshInv
  <2> QED BY <1>1, <2>1, <2>2, <2>3 DEF receive
<1>2. CASE network_error(c) \/ serve_unauthorized(c)
  BY <1>2 DEF network_error, serve_unauthorized, Serve, refreshes, session, RefreshInv
<1>3. CASE serve_refresh(c)
  <2>1. \A d \in Calls \ {c} : refresh[d] = "none"
    BY <1>3 DEF serve_refresh, RefreshInv
  <2>2. refresh[c] = "sent" /\ refreshGen[c] = cookie /\ UNCHANGED <<refreshInFlight, refreshGen, cookie, grantLost>>
    BY <1>3 DEF serve_refresh, RefreshInv
  <2>3. ~grantLost => issued = cookie /\ ~revoked
    BY <2>1, <2>2 DEF RefreshInv
  <2>4. CASE refreshGen[c] = issued /\ ~revoked
    BY <1>3, <2>1, <2>2, <2>3, <2>4 DEF serve_refresh, RefreshInv, ApiTypeOK
  <2>5. CASE ~(refreshGen[c] = issued /\ ~revoked)
    BY <1>3, <2>1, <2>2, <2>3, <2>5 DEF serve_refresh, RefreshInv, ApiTypeOK
  <2> QED BY <2>4, <2>5
<1>4. CASE receive_refresh(c, dead)
  <2>1. \A d \in Calls \ {c} : refresh[d] = "none"
    BY <1>4 DEF receive_refresh, RefreshInv
  <2>2. refresh' = [refresh EXCEPT ![c] = "none"] /\ UNCHANGED <<issued, revoked, grantLost>>
    BY <1>4 DEF receive_refresh, Release
  <2>3. \A d \in Calls : refresh'[d] = "none"
    BY <2>1, <2>2 DEF ApiTypeOK
  <2>4. ~grantLost => issued = cookie'
    BY <1>4, <2>1 DEF receive_refresh, RefreshInv
  <2> QED BY <2>2, <2>3, <2>4 DEF RefreshInv
<1>5. CASE refresh_error(c, dead)
  <2>1. \A d \in Calls \ {c} : refresh[d] = "none"
    BY <1>5 DEF refresh_error, RefreshInv
  <2>2. refresh' = [refresh EXCEPT ![c] = "none"] /\ UNCHANGED <<cookie, issued, revoked>>
        /\ grantLost' = (grantLost \/ refresh[c] = "granted")
    BY <1>5 DEF refresh_error, Release
  <2>3. \A d \in Calls : refresh'[d] = "none"
    BY <2>1, <2>2 DEF ApiTypeOK
  <2> QED BY <2>1, <2>2, <2>3 DEF RefreshInv, ApiTypeOK
<1> QED BY <1>1, <1>2, <1>3, <1>4, <1>5 DEF ApiStep

-----------------------------------------------------------------------------
(* The runs.                                                               *)

ClientTypeOK ==
  /\ mounted \in BOOLEAN
  /\ phase \in Busy \cup {"idle", "done", "cancelled", "error"}
  /\ doneRun \in 0..MaxRuns /\ active \in 0..MaxRuns /\ lastRun \in 0..MaxRuns
  /\ pc \in [Runs -> Busy \cup {"none", "over"}]
  /\ aborted \in [Runs -> BOOLEAN]
  /\ videoId \in [Runs -> BOOLEAN]
  /\ part \in [Runs -> [Parts -> {"none", "todo", "sending", "stored", "failed"}]]
  /\ failure \in [Runs -> BOOLEAN]
  /\ video \in [Runs -> {"none", "PENDING", "QUEUED", "FAILED"}]

\* Runs start in order, the active one is under way, and "done" speaks of a
\* run whose /complete was answered.
FormInv ==
  /\ FormFollowsRun
  /\ active # 0 => pc[active] \in Busy
  /\ \A r \in Runs : r > lastRun => pc[r] = "none"
  /\ phase = "done" => doneRun \in Runs /\ call[<<doneRun, "complete">>] = "ok"

\* What each place of the coroutine says of the run's calls.
RunOK(r) ==
  /\ pc[r] = "none" => ~aborted[r]
  /\ pc[r] \in Busy => active = r \/ aborted[r]
  /\ pc[r] \in {"none", "hashing"} => call[<<r, "upload">>] = "idle"
  /\ pc[r] \in {"none", "hashing", "presigning"}
       => call[<<r, "complete">>] = "idle" /\ call[<<r, "cancel">>] = "idle" /\ ~videoId[r]
  /\ pc[r] = "uploading"
       => call[<<r, "upload">>] = "ok" /\ call[<<r, "complete">>] = "idle" /\ videoId[r]
  /\ pc[r] = "over" /\ aborted[r] /\ videoId[r] /\ call[<<r, "complete">>] = "idle"
       => call[<<r, "cancel">>] # "idle"
  /\ call[<<r, "complete">>] # "idle"
       => call[<<r, "upload">>] = "ok"
  /\ call[<<r, "cancel">>] # "idle" => aborted[r]
  /\ call[<<r, "complete">>] = "ok" \/ answer[<<r, "complete">>] = "ok"
       => video[r] = "QUEUED"

RunInv == FormInv /\ \A r \in Runs : RunOK(r)

IInv == ApiTypeOK /\ ClientTypeOK /\ CallInv /\ RefreshInv /\ RunInv

\* Nothing of run q changes.
Same(q) ==
  /\ pc'[q] = pc[q] /\ aborted'[q] = aborted[q] /\ videoId'[q] = videoId[q]
  /\ part'[q] = part[q] /\ video'[q] = video[q]
  /\ \A k \in Kinds : call'[<<q, k>>] = call[<<q, k>>]
  /\ answer'[<<q, "complete">>] = answer[<<q, "complete">>]

\* A run that a step leaves alone, and does not take the form from, stays in
\* order.
LEMMA SameRun ==
  ASSUME NEW q \in Runs, RunOK(q), Same(q), active = q => active' = q
  PROVE  RunOK(q)'
BY DEF RunOK, Same, Kinds

\* The three calls of a run are calls of the page.
LEMMA RunCall ==
  ASSUME NEW r \in Runs, NEW k \in Kinds
  PROVE  <<r, k>> \in Calls
BY UploadClientAssumption DEF RunCalls

\* Making a call touches no other.
LEMMA Making ==
  ASSUME ApiTypeOK, CallInv, NEW r \in Runs, NEW k \in Kinds,
         call[<<r, k>>] = "idle", make(<<r, k>>),
         UNCHANGED <<retried, answer, refreshes, session>>
  PROVE  /\ ApiTypeOK' /\ CallInv'
         /\ call'[<<r, k>>] = "pending"
         /\ \A q \in Runs, l \in Kinds :
              q # r \/ l # k => call'[<<q, l>>] = call[<<q, l>>]
<1> DEFINE c == <<r, k>>
<1>1. c \in Calls /\ call[c] = "idle" /\ make(c)
  BY RunCall
<1>2. \A q \in Runs, l \in Kinds : <<q, l>> \in Calls /\ (q # r \/ l # k => <<q, l>> # c)
  BY RunCall
<1> HIDE DEF c
<1>3. call'[c] = "pending" /\ \A d \in Calls \ {c} : call'[d] = call[d] /\ wire'[d] = wire[d]
  BY <1>1 DEF make, ApiTypeOK
<1>4. ApiTypeOK'
  BY <1>1 DEF make, refreshes, session, ApiTypeOK, CallState
<1>5. CallInv'
  BY <1>1, <1>3 DEF CallInv, ApiTypeOK
<1> QED BY <1>2, <1>3, <1>4, <1>5 DEF c

\* A run that is over leaves the form or frees it.
LEMMA Finishing ==
  ASSUME ClientTypeOK, NEW r \in Runs, finishRun(r)
  PROVE  /\ pc' \in [Runs -> Busy \cup {"none", "over"}] /\ pc'[r] = "over"
         /\ part' \in [Runs -> [Parts -> {"none", "todo", "sending", "stored", "failed"}]]
         /\ failure' \in [Runs -> BOOLEAN]
         /\ \A i \in Parts : part'[r][i] = "none"
         /\ active' \in 0..MaxRuns /\ active' = IF active = r THEN 0 ELSE active
         /\ \A q \in Runs \ {r} : pc'[q] = pc[q] /\ part'[q] = part[q]
<1>1. /\ active' = IF active = r THEN 0 ELSE active
      /\ pc' = [pc EXCEPT ![r] = "over"]
      /\ failure' = [failure EXCEPT ![r] = FALSE]
  BY DEF finishRun, At
<1>2. active' \in 0..MaxRuns
  BY <1>1, UploadClientAssumption DEF ClientTypeOK
<1>3. /\ pc' \in [Runs -> Busy \cup {"none", "over"}] /\ pc'[r] = "over"
      /\ failure' \in [Runs -> BOOLEAN]
      /\ \A q \in Runs \ {r} : pc'[q] = pc[q]
  BY <1>1 DEF ClientTypeOK
<1>4. /\ part' \in [Runs -> [Parts -> {"none", "todo", "sending", "stored", "failed"}]]
      /\ \A i \in Parts : part'[r][i] = "none"
      /\ \A q \in Runs \ {r} : part'[q] = part[q]
  BY DEF finishRun, ClientTypeOK
<1> QED BY <1>1, <1>2, <1>3, <1>4

\* A run that ends, silently if it was cancelled and with a word if not, leaves
\* every other in order, whether it asks for its video to be cancelled or not.
LEMMA Ending ==
  ASSUME IInv, NEW r \in Runs, pc[r] \in Busy, finishRun(r),
         UNCHANGED <<mounted, lastRun, aborted, video>>,
         videoId' \in {videoId, [videoId EXCEPT ![r] = TRUE]},
         \/ isRunCancelled(r) /\ UNCHANGED <<phase, doneRun>>
         \/ ~isRunCancelled(r) /\ phase' = "error" /\ UNCHANGED doneRun
         \/ /\ ~isRunCancelled(r) /\ call[<<r, "complete">>] = "ok"
            /\ phase' = "done" /\ doneRun' = r,
         \/ UNCHANGED apiVars
         \/ /\ isRunCancelled(r)
            /\ call[<<r, "cancel">>] = "idle" /\ call[<<r, "complete">>] = "idle"
            /\ make(<<r, "cancel">>) /\ UNCHANGED <<retried, answer, refreshes, session>>,
         aborted[r] /\ videoId'[r] /\ call[<<r, "complete">>] = "idle"
           => call'[<<r, "cancel">>] # "idle"
  PROVE  IInv'
<1>1. /\ pc' \in [Runs -> Busy \cup {"none", "over"}] /\ pc'[r] = "over"
      /\ part' \in [Runs -> [Parts -> {"none", "todo", "sending", "stored", "failed"}]]
      /\ failure' \in [Runs -> BOOLEAN]
      /\ \A i \in Parts : part'[r][i] = "none"
      /\ active' \in 0..MaxRuns /\ active' = IF active = r THEN 0 ELSE active
      /\ \A q \in Runs \ {r} : pc'[q] = pc[q] /\ part'[q] = part[q]
  BY Finishing DEF IInv
<1>2. videoId' \in [Runs -> BOOLEAN] /\ \A q \in Runs \ {r} : videoId'[q] = videoId[q]
  BY DEF IInv, ClientTypeOK
<1>3. phase' \in Busy \cup {"idle", "done", "cancelled", "error"} /\ doneRun' \in 0..MaxRuns
  BY DEF IInv, ClientTypeOK, Runs
<1>4. ClientTypeOK'
  BY <1>1, <1>2, <1>3 DEF IInv, ClientTypeOK
<1>5. UNCHANGED <<answer, refreshes, session>>
  BY DEF apiVars, requests
<1>6. /\ ApiTypeOK' /\ CallInv'
      /\ \A q \in Runs, l \in Kinds : q # r \/ l # "cancel" => call'[<<q, l>>] = call[<<q, l>>]
  <2>1. CASE UNCHANGED apiVars
    BY <2>1 DEF apiVars, requests, refreshes, session, IInv, ApiTypeOK, CallInv
  <2>2. CASE call[<<r, "cancel">>] = "idle" /\ make(<<r, "cancel">>)
             /\ UNCHANGED <<retried, answer, refreshes, session>>
    BY <2>2, Making DEF Kinds, IInv
  <2> QED BY <2>1, <2>2
<1>7. RefreshInv'
  BY <1>5 DEF refreshes, session, IInv, RefreshInv
<1>8. FormInv'
  <2>1. 0 \notin Runs /\ RunOK(r) /\ FormInv
    BY DEF Runs, IInv, RunInv
  <2>2. FormFollowsRun'
    BY <1>1, <2>1 DEF FormInv, FormFollowsRun, isRunCancelled, IInv, ClientTypeOK, Runs, Busy
  <2>3. active' # 0 => pc'[active'] \in Busy
    BY <1>1, <2>1 DEF FormInv, IInv, ClientTypeOK, Runs
  <2>4. \A q \in Runs : q > lastRun' => pc'[q] = "none"
    BY <1>1, <2>1 DEF FormInv, Busy
  <2>5. phase' = "done" => doneRun' \in Runs /\ call'[<<doneRun', "complete">>] = "ok"
    BY <1>6, <2>1 DEF FormInv, Kinds
  <2> QED BY <2>2, <2>3, <2>4, <2>5 DEF FormInv
<1>9. RunOK(r)'
  <2>1. RunOK(r)
    BY DEF IInv, RunInv
  <2>2. call'[<<r, "upload">>] = call[<<r, "upload">>] /\ call'[<<r, "complete">>] = call[<<r, "complete">>]
    BY <1>6 DEF Kinds
  <2>3. call'[<<r, "cancel">>] # call[<<r, "cancel">>]
          => call[<<r, "complete">>] = "idle" /\ aborted[r]
    BY <2>1 DEF isRunCancelled, RunOK, apiVars, requests
  <2> QED BY <1>1, <1>5, <2>1, <2>2, <2>3 DEF RunOK, Busy
<1>10. ASSUME NEW q \in Runs \ {r} PROVE RunOK(q)'
  <2>1. Same(q)
    BY <1>1, <1>2, <1>5, <1>6 DEF Same
  <2> QED BY <1>1, <2>1, SameRun DEF IInv, RunInv
<1> QED BY <1>4, <1>6, <1>7, <1>8, <1>9, <1>10 DEF IInv, RunInv

\* The calls and the refreshes of a step that leaves the client's API alone.
LEMMA QuietApi ==
  ASSUME IInv, UNCHANGED apiVars
  PROVE  ApiTypeOK' /\ CallInv' /\ RefreshInv'
BY DEF IInv, apiVars, requests, refreshes, session, ApiTypeOK, CallInv, RefreshInv

\* The steps that end a run keep the invariant.
LEMMA Endings ==
  ASSUME IInv, NEW r \in Runs,
         \/ hash_done(r) /\ isRunCancelled(r)
         \/ presign_failed(r) \/ presign_cancelled(r) \/ presign_unusable(r)
         \/ transfer_cancelled(r) \/ transfer_failed(r) \/ complete_returns(r)
  PROVE  IInv'
<1> USE DEF Show, FinishSilently, FinishWithError
<1>0. RunOK(r)
  BY DEF IInv, RunInv
<1>1. CASE hash_done(r) /\ isRunCancelled(r)
  BY <1>0, <1>1, Ending DEF hash_done, Busy, RunOK
<1>2. CASE presign_failed(r)
  BY <1>0, <1>2, Ending DEF presign_failed, Busy, RunOK
<1>3. CASE presign_cancelled(r)
  <2>1. call'[<<r, "cancel">>] = "pending"
    BY <1>0, <1>3, Making DEF presign_cancelled, IInv, Kinds, RunOK
  <2> QED BY <1>0, <1>3, <2>1, Ending DEF presign_cancelled, Busy, RunOK
<1>4. CASE presign_unusable(r)
  BY <1>0, <1>4, Ending DEF presign_unusable, isRunCancelled, Busy, RunOK
<1>5. CASE transfer_cancelled(r)
  <2>1. pc[r] = "uploading" /\ isRunCancelled(r) /\ call[<<r, "complete">>] = "idle" /\ videoId[r]
    BY <1>0, <1>5 DEF transfer_cancelled, WorkersDone, RunOK
  <2>2. CASE call[<<r, "cancel">>] = "idle"
    <3>1. make(<<r, "cancel">>) /\ UNCHANGED <<retried, answer, refreshes, session>>
      BY <1>5, <2>1, <2>2 DEF transfer_cancelled, cancelRemoteUpload
    <3>2. call'[<<r, "cancel">>] = "pending"
      BY <2>2, <3>1, Making DEF IInv, Kinds
    <3> QED BY <1>5, <2>1, <2>2, <3>1, <3>2, Ending DEF transfer_cancelled, Busy
  <2>3. CASE call[<<r, "cancel">>] # "idle"
    BY <1>5, <2>1, <2>3, Ending DEF transfer_cancelled, cancelRemoteUpload, apiVars, requests, Busy
  <2> QED BY <2>2, <2>3
<1>6. CASE transfer_failed(r)
  BY <1>0, <1>6, Ending DEF transfer_failed, WorkersDone, isRunCancelled, Busy, RunOK
<1>7. CASE complete_returns(r)
  <2>1. pc[r] \in Busy /\ call[<<r, "complete">>] # "idle" /\ UNCHANGED <<videoId, apiVars>>
    BY <1>7 DEF complete_returns, Busy
  <2> QED BY <1>7, <2>1, Ending DEF complete_returns
<1> QED BY <1>1, <1>2, <1>3, <1>4, <1>5, <1>6, <1>7

\* A run that starts keeps the invariant.
LEMMA Starts ==
  ASSUME IInv, NEW r \in Runs, submit(r)
  PROVE  IInv'
<1> USE DEF Show, At
<1>0. 0 \notin Runs /\ RunOK(r) /\ FormInv /\ \A q \in Runs : RunOK(q)
  BY DEF Runs, IInv, RunInv
<1>1. /\ mounted /\ active = 0 /\ lastRun' = r /\ active' = r /\ r = lastRun + 1
      /\ UNCHANGED <<mounted, doneRun, aborted, videoId, transfer, video>>
      /\ pc' = [pc EXCEPT ![r] = phase'] /\ phase' \in {"hashing", "presigning"}
      /\ UNCHANGED <<retried, answer, refreshes, session>>
  BY DEF submit, apiVars, requests
<1>2. pc[r] = "none" /\ ~aborted[r] /\ call[<<r, "upload">>] = "idle"
      /\ \A k \in Kinds : k # "upload" => call[<<r, k>>] = "idle"
  BY <1>0, <1>1 DEF FormInv, RunOK, Kinds, IInv, ClientTypeOK, Runs
<1>3. /\ ApiTypeOK' /\ CallInv'
      /\ \A q \in Runs, l \in Kinds : q # r \/ l # "upload" => call'[<<q, l>>] = call[<<q, l>>]
      /\ phase' = "hashing" => call'[<<r, "upload">>] = "idle"
  <2>1. CASE UNCHANGED apiVars
    BY <1>2, <2>1, QuietApi DEF apiVars, requests
  <2>2. CASE phase' = "presigning" /\ make(<<r, "upload">>)
    BY <1>1, <1>2, <2>2, Making DEF IInv, Kinds
  <2> QED BY <2>1, <2>2 DEF submit
<1>4. RefreshInv'
  BY <1>1 DEF refreshes, session, IInv, RefreshInv
<1>5. pc' \in [Runs -> Busy \cup {"none", "over"}] /\ pc'[r] = phase' /\ phase' \in Busy
      /\ \A q \in Runs \ {r} : pc'[q] = pc[q]
  BY <1>1 DEF IInv, ClientTypeOK, Busy
<1>6. ClientTypeOK'
  BY <1>1, <1>5 DEF IInv, ClientTypeOK, transfer, Runs
<1>7. FormInv'
  BY <1>0, <1>1, <1>2, <1>5 DEF FormInv, FormFollowsRun, IInv, ClientTypeOK, Runs
<1>8. RunOK(r)'
  BY <1>0, <1>1, <1>2, <1>3, <1>5 DEF RunOK, transfer, Kinds
<1>9. ASSUME NEW q \in Runs \ {r} PROVE RunOK(q)'
  <2>1. Same(q)
    BY <1>1, <1>3, <1>5 DEF Same, transfer
  <2> QED BY <1>0, <1>1, <2>1, SameRun
<1> QED BY <1>3, <1>4, <1>6, <1>7, <1>8, <1>9 DEF IInv, RunInv

\* The steps that take a run further keep the invariant.
LEMMA Advances ==
  ASSUME IInv, NEW r \in Runs,
         \/ hash_done(r) /\ ~isRunCancelled(r)
         \/ presign_done(r) \/ transfer_done(r)
  PROVE  IInv'
<1> USE DEF Show, At
<1>0. 0 \notin Runs /\ RunOK(r) /\ FormInv /\ \A q \in Runs : RunOK(q)
  BY DEF Runs, IInv, RunInv
<1>1. CASE hash_done(r) /\ ~isRunCancelled(r)
  <2>1. /\ pc[r] = "hashing" /\ active = r /\ ~aborted[r] /\ phase' = "presigning"
        /\ pc' = [pc EXCEPT ![r] = "presigning"] /\ make(<<r, "upload">>)
        /\ UNCHANGED <<mounted, doneRun, active, lastRun, aborted, videoId, transfer, video>>
        /\ UNCHANGED <<retried, answer, refreshes, session>>
    BY <1>1 DEF hash_done, isRunCancelled
  <2>2. /\ ApiTypeOK' /\ CallInv' /\ call'[<<r, "upload">>] = "pending"
        /\ \A q \in Runs, l \in Kinds : q # r \/ l # "upload" => call'[<<q, l>>] = call[<<q, l>>]
    BY <1>0, <2>1, Making DEF RunOK, IInv, Kinds
  <2>3. RefreshInv'
    BY <2>1 DEF refreshes, session, IInv, RefreshInv
  <2>4. pc' \in [Runs -> Busy \cup {"none", "over"}] /\ pc'[r] = "presigning"
        /\ \A q \in Runs \ {r} : pc'[q] = pc[q]
    BY <2>1 DEF IInv, ClientTypeOK, Busy
  <2>5. ClientTypeOK'
    BY <2>1, <2>4 DEF IInv, ClientTypeOK, transfer, Busy
  <2>6. FormInv'
    BY <1>0, <2>1, <2>4 DEF FormInv, FormFollowsRun, Busy
  <2>7. RunOK(r)'
    BY <1>0, <2>1, <2>2, <2>4 DEF RunOK, transfer, Kinds, Busy
  <2>8. ASSUME NEW q \in Runs \ {r} PROVE RunOK(q)'
    <3>1. Same(q)
      BY <2>1, <2>2, <2>4 DEF Same, transfer
    <3> QED BY <1>0, <2>1, <3>1, SameRun
  <2> QED BY <2>2, <2>3, <2>5, <2>6, <2>7, <2>8 DEF IInv, RunInv
<1>2. CASE presign_done(r)
  <2>1. /\ pc[r] = "presigning" /\ active = r /\ ~aborted[r] /\ phase' = "uploading"
        /\ call[<<r, "upload">>] = "ok"
        /\ pc' = [pc EXCEPT ![r] = "uploading"] /\ videoId' = [videoId EXCEPT ![r] = TRUE]
        /\ UNCHANGED <<mounted, doneRun, active, lastRun, aborted, failure, video, apiVars>>
    BY <1>2 DEF presign_done, isRunCancelled
  <2>2. ApiTypeOK' /\ CallInv' /\ RefreshInv' /\ UNCHANGED <<call, answer>>
    BY <2>1, QuietApi DEF apiVars, requests
  <2>3. /\ part' \in [Runs -> [Parts -> {"none", "todo", "sending", "stored", "failed"}]]
        /\ \A q \in Runs \ {r} : part'[q] = part[q]
    BY <1>2 DEF presign_done, IInv, ClientTypeOK
  <2>4. /\ pc' \in [Runs -> Busy \cup {"none", "over"}] /\ pc'[r] = "uploading"
        /\ videoId' \in [Runs -> BOOLEAN] /\ videoId'[r]
        /\ \A q \in Runs \ {r} : pc'[q] = pc[q] /\ videoId'[q] = videoId[q]
    BY <2>1 DEF IInv, ClientTypeOK, Busy
  <2>5. ClientTypeOK'
    BY <2>1, <2>3, <2>4 DEF IInv, ClientTypeOK, Busy
  <2>6. FormInv'
    BY <1>0, <2>1, <2>2, <2>4 DEF FormInv, FormFollowsRun, Busy
  <2>7. RunOK(r)'
    BY <1>0, <2>1, <2>2, <2>4 DEF RunOK, Busy
  <2>8. ASSUME NEW q \in Runs \ {r} PROVE RunOK(q)'
    <3>1. Same(q)
      BY <2>1, <2>2, <2>3, <2>4 DEF Same
    <3> QED BY <1>0, <2>1, <3>1, SameRun
  <2> QED BY <2>2, <2>5, <2>6, <2>7, <2>8 DEF IInv, RunInv
<1>3. CASE transfer_done(r)
  <2>1. /\ pc[r] = "uploading" /\ active = r /\ ~aborted[r] /\ phase' = "finalizing"
        /\ pc' = [pc EXCEPT ![r] = "finalizing"] /\ make(<<r, "complete">>)
        /\ \A i \in Parts : part[r][i] \in {"stored", "none"}
        /\ UNCHANGED <<mounted, doneRun, active, lastRun, aborted, videoId, transfer, video>>
        /\ UNCHANGED <<retried, answer, refreshes, session>>
    BY <1>3 DEF transfer_done, WorkersDone, TransferComplete, isRunCancelled
  <2>2. /\ call[<<r, "complete">>] = "idle" /\ answer[<<r, "complete">>] = "none"
        /\ ApiTypeOK' /\ CallInv' /\ call'[<<r, "complete">>] = "pending"
        /\ \A q \in Runs, l \in Kinds : q # r \/ l # "complete" => call'[<<q, l>>] = call[<<q, l>>]
    BY <1>0, <2>1, Making, RunCall DEF RunOK, IInv, CallInv, Kinds
  <2>3. RefreshInv'
    BY <2>1 DEF refreshes, session, IInv, RefreshInv
  <2>4. pc' \in [Runs -> Busy \cup {"none", "over"}] /\ pc'[r] = "finalizing"
        /\ \A q \in Runs \ {r} : pc'[q] = pc[q]
    BY <2>1 DEF IInv, ClientTypeOK, Busy
  <2>5. ClientTypeOK'
    BY <2>1, <2>4 DEF IInv, ClientTypeOK, transfer, Busy
  <2>6. FormInv'
    BY <1>0, <2>1, <2>4 DEF FormInv, FormFollowsRun, Busy
  <2>7. RunOK(r)'
    BY <1>0, <2>1, <2>2, <2>4 DEF RunOK, transfer, Kinds, Busy
  <2>8. ASSUME NEW q \in Runs \ {r} PROVE RunOK(q)'
    <3>1. Same(q)
      BY <2>1, <2>2, <2>4 DEF Same, transfer
    <3> QED BY <1>0, <2>1, <3>1, SameRun
  <2> QED BY <2>2, <2>3, <2>5, <2>6, <2>7, <2>8 DEF IInv, RunInv
<1> QED BY <1>1, <1>2, <1>3

\* A part that is stored or fails keeps the invariant.
LEMMA Transfers ==
  ASSUME IInv, NEW r \in Runs, NEW i \in Parts, part_stored(r, i) \/ part_failed(r, i)
  PROVE  IInv'
<1>0. RunOK(r) /\ FormInv /\ \A q \in Runs : RunOK(q)
  BY DEF IInv, RunInv
<1>1. /\ part[r][i] = "sending" /\ UNCHANGED <<form, pc, aborted, videoId, video, apiVars>>
  BY DEF part_stored, part_failed
<1>2. /\ part' \in [Runs -> [Parts -> {"none", "todo", "sending", "stored", "failed"}]]
      /\ failure' \in [Runs -> BOOLEAN]
      /\ \A q \in Runs \ {r} : part'[q] = part[q]
  <2>1. CASE part_stored(r, i)
    BY <2>1 DEF part_stored, IInv, ClientTypeOK
  <2>2. CASE part_failed(r, i)
    BY <2>2 DEF part_failed, IInv, ClientTypeOK
  <2> QED BY <2>1, <2>2
<1>3. ApiTypeOK' /\ CallInv' /\ RefreshInv' /\ UNCHANGED <<call, answer>>
  BY <1>1, QuietApi DEF apiVars, requests
<1>4. ClientTypeOK'
  BY <1>1, <1>2 DEF IInv, ClientTypeOK, form
<1>5. FormInv'
  BY <1>0, <1>1, <1>3 DEF FormInv, FormFollowsRun, form
<1>6. RunOK(r)'
  BY <1>0, <1>1, <1>3 DEF RunOK, form
<1>7. ASSUME NEW q \in Runs \ {r} PROVE RunOK(q)'
  <2>1. Same(q)
    BY <1>1, <1>2, <1>3 DEF Same
  <2> QED BY <1>0, <1>1, <2>1, SameRun DEF form
<1> QED BY <1>3, <1>4, <1>5, <1>6, <1>7 DEF IInv, RunInv

\* Aborting a run ends the parts and the call it has out, and nothing else.
LEMMA Aborting ==
  ASSUME IInv, NEW r \in Runs, abortRun(r)
  PROVE  /\ aborted' \in [Runs -> BOOLEAN] /\ aborted'[r]
         /\ part' \in [Runs -> [Parts -> {"none", "todo", "sending", "stored", "failed"}]]
         /\ failure' \in [Runs -> BOOLEAN]
         /\ \A q \in Runs \ {r} : aborted'[q] = aborted[q] /\ part'[q] = part[q]
<1>1. aborted' = [aborted EXCEPT ![r] = TRUE]
  BY DEF abortRun
<1>2. aborted' \in [Runs -> BOOLEAN] /\ aborted'[r] /\ \A q \in Runs \ {r} : aborted'[q] = aborted[q]
  BY <1>1 DEF IInv, ClientTypeOK
<1>3. /\ part' \in [Runs -> [Parts -> {"none", "todo", "sending", "stored", "failed"}]]
      /\ \A q \in Runs \ {r} : part'[q] = part[q]
  <2>1. [i \in Parts |-> "none"] \in [Parts -> {"none", "todo", "sending", "stored", "failed"}]
    OBVIOUS
  <2> QED BY <2>1 DEF abortRun, IInv, ClientTypeOK
<1>4. failure' \in [Runs -> BOOLEAN]
  BY DEF abortRun, IInv, ClientTypeOK
<1> QED BY <1>2, <1>3, <1>4

\* The calls of an aborted run, with the call that asks for its cancellation or
\* without it.
LEMMA AbortCalls ==
  ASSUME IInv, NEW r \in Runs, UNCHANGED <<refreshes, session>>,
         answer' = AbortedAnswers(r), retried' = AbortedRetries(r),
         \/ call' = AbortedCalls(r) /\ UNCHANGED wire
         \/ /\ call[<<r, "cancel">>] = "idle"
            /\ call' = [AbortedCalls(r) EXCEPT ![<<r, "cancel">>] = "pending"]
            /\ wire' = [wire EXCEPT ![<<r, "cancel">>] = cookie]
  PROVE  /\ ApiTypeOK' /\ CallInv'
         /\ \A q \in Runs \ {r}, k \in Kinds :
              call'[<<q, k>>] = call[<<q, k>>] /\ answer'[<<q, k>>] = answer[<<q, k>>]
         /\ \A k \in {"upload", "complete"} :
              /\ call'[<<r, k>>] = "idle" <=> call[<<r, k>>] = "idle"
              /\ call[<<r, k>>] = "ok" <=> call'[<<r, k>>] = "ok"
              /\ answer'[<<r, k>>] = "none"
         /\ call' = AbortedCalls(r) => call'[<<r, "cancel">>] = call[<<r, "cancel">>]
         /\ call' = [AbortedCalls(r) EXCEPT ![<<r, "cancel">>] = "pending"]
              => call'[<<r, "cancel">>] = "pending"
<1> DEFINE x == <<r, "cancel">>
           S == Signalled(r)
<1>1. /\ x \in Calls /\ x \notin S /\ S \subseteq Calls
      /\ \A q \in Runs \ {r}, k \in Kinds : <<q, k>> \in Calls /\ <<q, k>> \notin S /\ <<q, k>> # x
      /\ \A k \in {"upload", "complete"} : <<r, k>> \in S /\ <<r, k>> # x
  BY RunCall DEF Signalled, Kinds
<1>2. /\ ApiTypeOK /\ CallInv
      /\ answer' = [c \in Calls |-> IF c \in S THEN "none" ELSE answer[c]]
      /\ retried' = [c \in Calls |-> retried[c] /\ ~(c \in S /\ call[c] = "pending")]
      /\ AbortedCalls(r) = [c \in Calls |-> IF c \in S /\ call[c] = "pending" THEN "failed" ELSE call[c]]
  BY DEF IInv, AbortedAnswers, AbortedRetries, AbortedCalls
<1>3. \/ call' = AbortedCalls(r) /\ wire' = wire
      \/ /\ call[x] = "idle"
         /\ call' = [AbortedCalls(r) EXCEPT ![x] = "pending"]
         /\ wire' = [wire EXCEPT ![x] = cookie]
  OBVIOUS
<1> HIDE DEF x, S
<1>4. \A c \in Calls \ {x} : /\ call'[c] = IF c \in S /\ call[c] = "pending" THEN "failed" ELSE call[c]
                             /\ wire'[c] = wire[c]
  BY <1>1, <1>2, <1>3 DEF ApiTypeOK
<1>5. /\ call' = AbortedCalls(r) => call'[x] = call[x]
      /\ call' = [AbortedCalls(r) EXCEPT ![x] = "pending"] => call'[x] = "pending"
  BY <1>1, <1>2
<1>6. ApiTypeOK'
  <2>1. call' \in [Calls -> CallState] /\ wire' \in [Calls -> Nat]
    BY <1>1, <1>2, <1>3 DEF ApiTypeOK, CallState
  <2>2. retried' \in [Calls -> BOOLEAN]
    BY <1>2
  <2>3. answer' \in [Calls -> {"none", "ok", "refused", "unauthorized"}]
    BY <1>2 DEF ApiTypeOK
  <2> QED BY <1>2, <2>1, <2>2, <2>3 DEF refreshes, session, ApiTypeOK
<1>7. CallInv'
  <2>1. ASSUME NEW c \in Calls \ {x}
        PROVE  /\ wire'[c] # 0 => call'[c] \in {"pending", "failed"}
               /\ answer'[c] # "none" => call'[c] = "pending" /\ wire'[c] = 0
    BY <1>2, <1>4 DEF CallInv
  <2>2. /\ wire'[x] # 0 => call'[x] \in {"pending", "failed"}
        /\ answer'[x] # "none" => call'[x] = "pending" /\ wire'[x] = 0
    <3>1. answer'[x] = answer[x] /\ (call[x] = "idle" => answer[x] = "none")
      BY <1>1, <1>2 DEF CallInv
    <3>2. CASE call' = AbortedCalls(r) /\ wire' = wire
      BY <1>1, <1>2, <1>5, <3>1, <3>2 DEF CallInv
    <3>3. CASE call[x] = "idle" /\ call' = [AbortedCalls(r) EXCEPT ![x] = "pending"]
      BY <1>5, <3>1, <3>3
    <3> QED BY <1>3, <3>2, <3>3
  <2> QED BY <2>1, <2>2 DEF CallInv
<1>8. \A q \in Runs \ {r}, k \in Kinds :
        call'[<<q, k>>] = call[<<q, k>>] /\ answer'[<<q, k>>] = answer[<<q, k>>]
  <2> SUFFICES ASSUME NEW q \in Runs \ {r}, NEW k \in Kinds
               PROVE  call'[<<q, k>>] = call[<<q, k>>] /\ answer'[<<q, k>>] = answer[<<q, k>>]
    OBVIOUS
  <2>1. PICK c \in Calls : c = <<q, k>> /\ c \notin S /\ c # x
    BY <1>1
  <2> QED BY <1>2, <1>4, <2>1
<1>9. \A k \in {"upload", "complete"} :
        /\ call'[<<r, k>>] = "idle" <=> call[<<r, k>>] = "idle"
        /\ call[<<r, k>>] = "ok" <=> call'[<<r, k>>] = "ok"
        /\ answer'[<<r, k>>] = "none"
  BY <1>1, <1>2, <1>4
<1> QED BY <1>5, <1>6, <1>7, <1>8, <1>9 DEF x

\* Cancelling the upload and leaving the page keep the invariant.
LEMMA Aborts ==
  ASSUME IInv, unmount \/ \E r \in Runs : handleCancelUpload(r)
  PROVE  IInv'
<1>0. FormInv /\ \A q \in Runs : RunOK(q)
  BY DEF IInv, RunInv
<1>1. CASE unmount /\ active = 0
  <2>2. /\ mounted' = FALSE /\ UNCHANGED apiVars
        /\ UNCHANGED <<phase, doneRun, active, lastRun, pc, aborted, videoId, transfer, video>>
    BY <1>1 DEF unmount, apiVars, requests
  <2>3. ApiTypeOK' /\ CallInv' /\ RefreshInv' /\ UNCHANGED <<call, answer>>
    BY <2>2, QuietApi DEF apiVars, requests
  <2>4. ClientTypeOK'
    BY <2>2 DEF IInv, ClientTypeOK, transfer
  <2>5. FormInv'
    BY <1>0, <2>2, <2>3 DEF FormInv, FormFollowsRun
  <2>6. \A q \in Runs : RunOK(q)'
    BY <1>0, <2>2, <2>3 DEF RunOK, transfer
  <2> QED BY <2>3, <2>4, <2>5, <2>6 DEF IInv, RunInv
<1>2. CASE unmount /\ active # 0
  <2>0. active \in Runs
    BY <1>2 DEF IInv, ClientTypeOK, Runs
  <2>1. PICK r \in Runs : r = active /\ pc[r] \in Busy
    BY <1>0, <1>2, <2>0 DEF FormInv
  <2>2. /\ mounted' = FALSE /\ abortRun(r) /\ UNCHANGED <<wire, refreshes, session>>
        /\ call' = AbortedCalls(r) /\ answer' = AbortedAnswers(r) /\ retried' = AbortedRetries(r)
        /\ UNCHANGED <<phase, doneRun, active, lastRun, pc, videoId, video>>
    BY <1>2, <2>1 DEF unmount
  <2>3. /\ aborted' \in [Runs -> BOOLEAN] /\ aborted'[r]
        /\ part' \in [Runs -> [Parts -> {"none", "todo", "sending", "stored", "failed"}]]
        /\ failure' \in [Runs -> BOOLEAN]
        /\ \A q \in Runs \ {r} : aborted'[q] = aborted[q] /\ part'[q] = part[q]
    BY <2>1, <2>2, Aborting
  <2>4. /\ ApiTypeOK' /\ CallInv'
        /\ \A q \in Runs \ {r}, k \in Kinds :
             call'[<<q, k>>] = call[<<q, k>>] /\ answer'[<<q, k>>] = answer[<<q, k>>]
        /\ \A k \in {"upload", "complete"} :
             /\ call'[<<r, k>>] = "idle" <=> call[<<r, k>>] = "idle"
             /\ call[<<r, k>>] = "ok" <=> call'[<<r, k>>] = "ok"
             /\ answer'[<<r, k>>] = "none"
        /\ call'[<<r, "cancel">>] = call[<<r, "cancel">>]
    BY <2>1, <2>2, AbortCalls
  <2>5. RefreshInv'
    BY <2>2 DEF refreshes, session, IInv, RefreshInv
  <2>6. ClientTypeOK'
    BY <2>2, <2>3 DEF IInv, ClientTypeOK
  <2>7. FormInv'
    BY <1>0, <2>1, <2>2, <2>4 DEF FormInv, FormFollowsRun, Kinds
  <2>8. RunOK(r)'
    BY <1>0, <2>1, <2>2, <2>3, <2>4 DEF RunOK, Busy
  <2>9. ASSUME NEW q \in Runs \ {r} PROVE RunOK(q)'
    <3>1. Same(q)
      BY <2>2, <2>3, <2>4 DEF Same, Kinds
    <3> QED BY <1>0, <2>2, <3>1, SameRun
  <2> QED BY <2>4, <2>5, <2>6, <2>7, <2>8, <2>9 DEF IInv, RunInv
<1>3. ASSUME NEW r \in Runs, handleCancelUpload(r) PROVE IInv'
  <2> DEFINE remote == videoId[r] /\ call[<<r, "cancel">>] = "idle"
  <2>1. /\ mounted /\ active = r /\ pc[r] = phase /\ pc[r] \in Busy
        /\ ~aborted[r]
    <3>1. mounted /\ active = r /\ r # 0 /\ phase \in Busy
      BY <1>3 DEF handleCancelUpload, Runs, Cancelable, Busy
    <3>2. pc[r] = phase /\ ~aborted[r]
      BY <1>0, <3>1 DEF FormInv, FormFollowsRun
    <3> QED BY <3>1, <3>2
  <2>2. /\ abortRun(r) /\ UNCHANGED <<refreshes, session>>
        /\ answer' = AbortedAnswers(r) /\ retried' = AbortedRetries(r)
        /\ phase' = "cancelled" /\ active' = 0
        /\ UNCHANGED <<mounted, doneRun, lastRun, pc, videoId, video>>
        /\ call' = IF remote THEN [AbortedCalls(r) EXCEPT ![<<r, "cancel">>] = "pending"]
                             ELSE AbortedCalls(r)
        /\ wire' = IF remote THEN [wire EXCEPT ![<<r, "cancel">>] = cookie] ELSE wire
    BY <1>3 DEF handleCancelUpload, Show
  <2>3. /\ aborted' \in [Runs -> BOOLEAN] /\ aborted'[r]
        /\ part' \in [Runs -> [Parts -> {"none", "todo", "sending", "stored", "failed"}]]
        /\ failure' \in [Runs -> BOOLEAN]
        /\ \A q \in Runs \ {r} : aborted'[q] = aborted[q] /\ part'[q] = part[q]
    BY <2>2, Aborting
  <2>4. /\ ApiTypeOK' /\ CallInv'
        /\ \A q \in Runs \ {r}, k \in Kinds :
             call'[<<q, k>>] = call[<<q, k>>] /\ answer'[<<q, k>>] = answer[<<q, k>>]
        /\ \A k \in {"upload", "complete"} :
             /\ call'[<<r, k>>] = "idle" <=> call[<<r, k>>] = "idle"
             /\ call[<<r, k>>] = "ok" <=> call'[<<r, k>>] = "ok"
             /\ answer'[<<r, k>>] = "none"
        /\ ~remote => call'[<<r, "cancel">>] = call[<<r, "cancel">>]
    <3>1. CASE remote
      BY <2>2, <3>1, AbortCalls
    <3>2. CASE ~remote
      BY <2>2, <3>2, AbortCalls
    <3> QED BY <3>1, <3>2
  <2>5. RefreshInv'
    BY <2>2 DEF refreshes, session, IInv, RefreshInv
  <2>6. ClientTypeOK'
    BY <2>2, <2>3, UploadClientAssumption DEF IInv, ClientTypeOK
  <2>7. FormInv'
    BY <1>0, <2>1, <2>2, <2>4 DEF FormInv, FormFollowsRun, Busy, Kinds
  <2>8. RunOK(r)'
    BY <1>0, <2>1, <2>2, <2>3, <2>4 DEF RunOK, Busy, Cancelable
  <2>9. ASSUME NEW q \in Runs \ {r} PROVE RunOK(q)'
    <3>1. Same(q)
      BY <2>2, <2>3, <2>4 DEF Same, Kinds
    <3> QED BY <1>0, <2>1, <3>1, SameRun
  <2> QED BY <2>4, <2>5, <2>6, <2>7, <2>8, <2>9 DEF IInv, RunInv
<1> QED BY <1>1, <1>2, <1>3

\* The server answers a call of one run and touches the video of no other.
LEMMA Servers ==
  ASSUME IInv, NEW r \in Runs, Server(r)
  PROVE  IInv'
<1>0. FormInv /\ RunOK(r) /\ \A q \in Runs : RunOK(q)
  BY DEF IInv, RunInv
<1>1. PICK k \in Kinds, a \in {"ok", "refused"} :
        /\ Serve(<<r, k>>, a)
        /\ \/ UNCHANGED video /\ (k = "complete" => a = "refused")
           \/ k = "upload" /\ video' = [video EXCEPT ![r] = "PENDING"]
           \/ k = "complete" /\ video' = [video EXCEPT ![r] = "QUEUED"]
           \/ k = "cancel" /\ video[r] = "PENDING" /\ video' = [video EXCEPT ![r] = "FAILED"]
  BY DEF Server, serve_upload, serve_complete, serve_cancel, Row, Kinds
<1>2. UNCHANGED <<form, pc, aborted, videoId, transfer>>
  BY DEF Server, serve_upload, serve_complete, serve_cancel
<1>3. PICK c \in Calls : c = <<r, k>> /\ Serve(c, a) /\ a \in {"ok", "refused"}
  BY <1>1, RunCall
<1>4. /\ ApiTypeOK' /\ CallInv' /\ UNCHANGED <<call, refreshes, session>>
      /\ \A d \in Calls \ {c} : answer'[d] = answer[d]
      /\ answer'[c] = "ok" => a = "ok" /\ call[c] = "pending"
      /\ call[c] \in {"pending", "failed"}
  BY <1>3 DEF Serve, refreshes, session, IInv, ApiTypeOK, CallInv
<1>5. \A q \in Runs, l \in Kinds : <<q, l>> \in Calls /\ (<<q, l>> = c => q = r /\ l = k)
  BY <1>3, RunCall
<1>6. /\ video' \in [Runs -> {"none", "PENDING", "QUEUED", "FAILED"}]
      /\ \A q \in Runs \ {r} : video'[q] = video[q]
  BY <1>1 DEF IInv, ClientTypeOK
<1>7. RefreshInv'
  BY <1>4 DEF refreshes, session, IInv, RefreshInv
<1>8. ClientTypeOK'
  BY <1>2, <1>6 DEF form, transfer, IInv, ClientTypeOK
<1>9. FormInv'
  BY <1>0, <1>2, <1>4 DEF form, FormInv, FormFollowsRun
<1>10. RunOK(r)'
  <2>1. call[<<r, "complete">>] = "ok" \/ answer'[<<r, "complete">>] = "ok" => video'[r] = "QUEUED"
    <3>1. ASSUME answer'[<<r, "complete">>] = "ok", k = "complete" PROVE video'[r] = "QUEUED"
      BY <1>1, <1>3, <1>4, <3>1 DEF IInv, ClientTypeOK
    <3>2. ASSUME call[<<r, "complete">>] = "ok" \/ answer'[<<r, "complete">>] = "ok",
                 ~(answer'[<<r, "complete">>] = "ok" /\ k = "complete")
          PROVE  video'[r] = "QUEUED"
      <4>1. call[<<r, "complete">>] = "ok" \/ answer[<<r, "complete">>] = "ok"
        BY <1>4, <1>5, <3>2 DEF Kinds
      <4>2. video[r] = "QUEUED" /\ call[<<r, "complete">>] # "idle"
        BY <1>0, <1>5, <4>1 DEF RunOK, Kinds, IInv, CallInv
      <4>3. k # "upload"
        BY <1>0, <1>3, <1>4, <4>2 DEF RunOK
      <4> QED BY <1>1, <4>2, <4>3 DEF IInv, ClientTypeOK
    <3> QED BY <3>1, <3>2
  <2> QED BY <1>0, <1>2, <1>4, <2>1 DEF RunOK, form, transfer
<1>11. ASSUME NEW q \in Runs \ {r} PROVE RunOK(q)'
  <2>1. Same(q)
    BY <1>2, <1>4, <1>5, <1>6 DEF Same, transfer, Kinds
  <2> QED BY <1>0, <1>2, <2>1, SameRun DEF form
<1> QED BY <1>4, <1>7, <1>8, <1>9, <1>10, <1>11 DEF IInv, RunInv

\* What the API client does to its calls is nothing the runs depend on.
LEMMA Apis ==
  ASSUME IInv, NEW c \in Calls, Api(c)
  PROVE  IInv'
<1>1. ApiStep(c, Dead) /\ UNCHANGED clientVars /\ FormInv /\ \A r \in Runs : RunOK(r)
  BY DEF Api, IInv, RunInv
<1>2. ApiTypeOK' /\ CallInv' /\ ApiEffect /\ RefreshInv'
  BY <1>1, ApiCalls, ApiRefreshes DEF IInv
<1>3. \A r \in Runs, k \in Kinds :
        /\ call'[<<r, k>>] = "idle" <=> call[<<r, k>>] = "idle"
        /\ call[<<r, k>>] = "ok" => call'[<<r, k>>] = "ok"
        /\ call'[<<r, k>>] = "ok" => call[<<r, k>>] = "ok" \/ answer[<<r, k>>] = "ok"
        /\ answer'[<<r, k>>] = "ok" => answer[<<r, k>>] = "ok"
  BY <1>2, RunCall DEF ApiEffect
<1>4. ClientTypeOK'
  BY <1>1 DEF clientVars, form, transfer, IInv, ClientTypeOK
<1>5. FormInv'
  BY <1>1, <1>3 DEF clientVars, form, FormInv, FormFollowsRun, Kinds
<1>6. ASSUME NEW r \in Runs PROVE RunOK(r)'
  BY <1>1, <1>3 DEF clientVars, form, transfer, RunOK, Kinds
<1> QED BY <1>2, <1>4, <1>5, <1>6 DEF IInv, RunInv

-----------------------------------------------------------------------------
(* The inductive invariant.                                                *)

LEMMA Initially == Init => IInv
<1> SUFFICES ASSUME Init PROVE IInv
  OBVIOUS
<1>1. ApiTypeOK /\ CallInv /\ RefreshInv
  BY ApiAssumption DEF Init, ApiInit, ApiTypeOK, CallState, CallInv, RefreshInv
<1>2. ClientTypeOK
  BY UploadClientAssumption DEF Init, ClientTypeOK, Busy
<1>3. FormInv
  BY DEF Init, FormInv, FormFollowsRun, Busy
<1>4. ASSUME NEW r \in Runs PROVE RunOK(r)
  <2>1. \A k \in Kinds : call[<<r, k>>] = "idle" /\ answer[<<r, k>>] = "none"
    BY RunCall DEF Init, ApiInit
  <2> QED BY <2>1 DEF Init, RunOK, Busy, Kinds
<1> QED BY <1>1, <1>2, <1>3, <1>4 DEF IInv, RunInv

LEMMA Inductive == IInv /\ [Next]_vars => IInv'
<1> SUFFICES ASSUME IInv, [Next]_vars PROVE IInv'
  OBVIOUS
<1>1. CASE submit_invalid
  <2>1. /\ phase' = "error" /\ active = 0
        /\ UNCHANGED <<mounted, doneRun, lastRun, active, pc, aborted, videoId, transfer, video, apiVars>>
    BY <1>1 DEF submit_invalid, Show
  <2>2. ApiTypeOK' /\ CallInv' /\ RefreshInv' /\ UNCHANGED <<call, answer>>
    BY <2>1, QuietApi DEF apiVars, requests
  <2>3. ClientTypeOK'
    BY <2>1 DEF transfer, IInv, ClientTypeOK
  <2>4. FormInv'
    BY <2>1 DEF IInv, RunInv, FormInv, FormFollowsRun, Busy
  <2>5. \A r \in Runs : RunOK(r)'
    BY <2>1, <2>2 DEF IInv, RunInv, RunOK, transfer
  <2> QED BY <2>2, <2>3, <2>4, <2>5 DEF IInv, RunInv
<1>2. CASE access_expires /\ UNCHANGED clientVars
  <2>1. /\ expired' = cookie /\ UNCHANGED <<requests, refreshes, cookie, issued, revoked, grantLost>>
    BY <1>2 DEF access_expires
  <2>2. ApiTypeOK' /\ CallInv' /\ RefreshInv' /\ UNCHANGED <<call, answer>>
    BY <2>1 DEF requests, refreshes, IInv, ApiTypeOK, CallInv, RefreshInv
  <2>3. ClientTypeOK' /\ FormInv'
    BY <1>2, <2>2 DEF clientVars, form, transfer, IInv, ClientTypeOK, RunInv, FormInv, FormFollowsRun
  <2>4. \A r \in Runs : RunOK(r)'
    BY <1>2, <2>2 DEF clientVars, form, transfer, IInv, RunInv, RunOK
  <2> QED BY <2>2, <2>3, <2>4 DEF IInv, RunInv
<1>3. CASE UNCHANGED vars
  <2>1. ApiTypeOK' /\ CallInv' /\ RefreshInv' /\ UNCHANGED <<call, answer>>
    BY <1>3, QuietApi DEF vars, apiVars, requests
  <2>2. ClientTypeOK' /\ FormInv'
    BY <1>3, <2>1 DEF vars, clientVars, form, transfer, IInv, ClientTypeOK, RunInv, FormInv, FormFollowsRun
  <2>3. \A r \in Runs : RunOK(r)'
    BY <1>3, <2>1 DEF vars, clientVars, form, transfer, IInv, RunInv, RunOK
  <2> QED BY <2>1, <2>2, <2>3 DEF IInv, RunInv
<1>4. ASSUME NEW r \in Runs, submit(r) \/ presign_unusable(r) \/ Coroutine(r) \/ Transfer(r) \/ Server(r)
      PROVE  IInv'
  <2>1. CASE Coroutine(r)
    BY <2>1, Endings, Advances DEF Coroutine
  <2>2. CASE submit(r)
    BY <2>2, Starts
  <2>3. CASE presign_unusable(r)
    BY <2>3, Endings
  <2>4. CASE Transfer(r)
    BY <2>4, Transfers DEF Transfer
  <2> QED BY <1>4, <2>1, <2>2, <2>3, <2>4, Servers
<1> QED BY <1>1, <1>2, <1>3, <1>4, Aborts, Apis DEF Next

\* What the invariant holds for: the three invariants of the run upload_client.
LEMMA Consequences ==
  IInv => FormTruthful /\ GivenUpIsCancelled /\ NoSelfReplay
<1> SUFFICES ASSUME IInv
             PROVE  FormTruthful /\ GivenUpIsCancelled /\ NoSelfReplay
  OBVIOUS
<1>0. ApiTypeOK /\ ClientTypeOK /\ RefreshInv /\ FormInv /\ \A r \in Runs : RunOK(r)
  BY DEF IInv, RunInv
<1>1. TypeOK
  BY <1>0 DEF TypeOK, ClientTypeOK
<1>2. DoneIsQueued
  BY <1>0 DEF DoneIsQueued, FormInv, RunOK
<1>3. GivenUpIsCancelled
  BY <1>0 DEF GivenUpIsCancelled, RunOK
<1>4. NoSelfReplay
  BY <1>0 DEF NoSelfReplay, RefreshInv, ApiTypeOK
<1> QED BY <1>0, <1>1, <1>2, <1>3, <1>4 DEF FormTruthful, FormInv

LEMMA Always == Spec => []IInv
BY Initially, Inductive, PTL DEF Spec

-----------------------------------------------------------------------------
(* The theorems.                                                           *)

\* The form of UploadForm.tsx shows where its active run is and announces only
\* what complete_upload has queued, whatever cancelled runs come back late.
THEOREM FormSafe == Spec => []FormTruthful
BY Always, Consequences, PTL

\* handleSubmit gives no run up before /complete without cancelling the video it
\* learnt of.
THEOREM GivenUpSafe == Spec => []GivenUpIsCancelled
BY Always, Consequences, PTL

\* apiFetch never replays the tab's own refresh token, for any number of calls
\* refused at once.
THEOREM ReplaySafe == Spec => []NoSelfReplay
BY Always, Consequences, PTL
=============================================================================
