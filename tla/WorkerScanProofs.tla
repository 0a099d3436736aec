-------------------------- MODULE WorkerScanProofs --------------------------
(***************************************************************************)
(* Proofs about isolated scanning, for any rounds, calls and time bounds.  *)
(***************************************************************************)
EXTENDS WorkerScan, TLAPS

\* Every variable keeps its type.
LEMMA TypeStep == IInv /\ [Next]_vars => TypeOK'
<1> SUFFICES ASSUME IInv, [Next]_vars PROVE TypeOK'
  OBVIOUS
<1> USE BoundsAssumption, CallsAssumption DEF IInv, TypeOK, TokenTTL, vars, caller, token, worker
<1>1. ASSUME NEW k \in Rounds, StartRound(k) PROVE TypeOK'
  BY <1>1 DEF StartRound
<1>2. ASSUME NEW k \in Rounds, Persist(k) PROVE TypeOK'
  BY <1>2 DEF Persist, PersistUnawaited, AllReturned
<1>3. ASSUME NEW k \in Rounds, Revoke(k) PROVE TypeOK'
  BY <1>3 DEF Revoke, DeleteScanTokens
<1>4. ASSUME CrashAPI PROVE TypeOK'
  BY <1>4 DEF CrashAPI
<1>5. ASSUME Tick PROVE TypeOK'
  BY <1>5 DEF Tick, AllReturned, ClockCap, ActiveDeadline, Expired
<1>6. ASSUME NEW d \in Calls, Mint(d) PROVE TypeOK'
  BY <1>6 DEF Mint, Goto, Counts, Return
<1>7. ASSUME NEW d \in Calls, Create(d) PROVE TypeOK'
  BY SMTT(30), <1>7 DEF Create, Launch, Goto, Return, Expired
<1>8. ASSUME NEW d \in Calls, Poll(d) PROVE TypeOK'
  BY <1>8 DEF Poll, StatusFails, Goto, Counts, Return
<1>9. ASSUME NEW d \in Calls, TimeOut(d) PROVE TypeOK'
  BY <1>9 DEF TimeOut, Goto, Counts, Return
<1>10. ASSUME NEW d \in Calls, FindPod(d) PROVE TypeOK'
  BY <1>10 DEF FindPod, Goto, Return
<1>11. ASSUME NEW d \in Calls, ReadLogs(d) PROVE TypeOK'
  BY <1>11 DEF ReadLogs, Extracted, Goto, Return
<1>12. ASSUME NEW d \in Calls, DeleteJob(d) PROVE TypeOK'
  BY <1>12 DEF DeleteJob, Goto
<1>13. ASSUME NEW d \in Calls, Admit(d) PROVE TypeOK'
  BY <1>13 DEF Admit, Launch
<1>14. ASSUME NEW d \in Calls, Conclude(d) PROVE TypeOK'
  BY <1>14 DEF Conclude
<1>15. ASSUME NEW d \in Calls, Overdue(d) PROVE TypeOK'
  BY <1>15 DEF Overdue, Vanish, ActiveDeadline
<1>16. ASSUME NEW d \in Calls, Clean(d) PROVE TypeOK'
  BY <1>16 DEF Clean
<1>17. ASSUME NEW d \in Calls, WorkerScans(d) PROVE TypeOK'
  BY <1>17 DEF WorkerScans, Generated, Exit
<1>18. ASSUME NEW d \in Calls, WorkerReads(d) PROVE TypeOK'
  BY <1>18 DEF WorkerReads, FetchStoredSBOM, Exit, Spend, Granted
<1>19. ASSUME NEW d \in Calls, NEW doc \in Docs, Post(d, doc) PROVE TypeOK'
  BY <1>19 DEF Post, Upload, InTime, Spend, Granted
<1>20. ASSUME NEW d \in Calls, Tell(d) PROVE TypeOK'
  BY <1>20 DEF Tell, Exit
<1>21. ASSUME NEW d \in Calls, Die(d) PROVE TypeOK'
  BY <1>21 DEF Die, Vanish
<1>22. CASE UNCHANGED vars
  BY <1>22
<1> QED
  BY <1>1, <1>2, <1>3, <1>4, <1>5, <1>6, <1>7, <1>8, <1>9, <1>10, <1>11, <1>12, <1>13, <1>14,
     <1>15, <1>16, <1>17, <1>18, <1>19, <1>20, <1>21, <1>22 DEF Next, CallStep, TrivyStep,
     GrypeStep, UnpackerStep, MalcontentStep, JobSteps, Cluster

\* A token is minted in its round; the round's end clears the table.
LEMMA CredentialStep == IInv /\ [Next]_vars => CredentialsEndWithRound'
<1> SUFFICES ASSUME IInv, [Next]_vars PROVE CredentialsEndWithRound'
  OBVIOUS
<1> USE CallsAssumption DEF IInv, TypeOK, CredentialsEndWithRound, RoundsEncloseCalls, vars,
        caller, token, worker
<1>1. ASSUME NEW k \in Rounds, StartRound(k) PROVE CredentialsEndWithRound'
  BY <1>1 DEF StartRound
<1>2. ASSUME NEW k \in Rounds, Persist(k) PROVE CredentialsEndWithRound'
  BY <1>2 DEF Persist, PersistUnawaited, AllReturned
<1>3. ASSUME NEW k \in Rounds, Revoke(k) PROVE CredentialsEndWithRound'
  BY <1>3 DEF Revoke, DeleteScanTokens
<1>4. ASSUME CrashAPI PROVE CredentialsEndWithRound'
  BY <1>4 DEF CrashAPI
<1>5. ASSUME Tick PROVE CredentialsEndWithRound'
  BY <1>5 DEF Tick, AllReturned, ClockCap, ActiveDeadline, Expired
<1>6. ASSUME NEW d \in Calls, Mint(d) PROVE CredentialsEndWithRound'
  BY <1>6 DEF Mint, Goto, Counts, Return
<1>7. ASSUME NEW d \in Calls, Create(d) PROVE CredentialsEndWithRound'
  BY <1>7 DEF Create, Launch, Goto, Return, Expired
<1>8. ASSUME NEW d \in Calls, Poll(d) PROVE CredentialsEndWithRound'
  BY <1>8 DEF Poll, StatusFails, Goto, Counts, Return
<1>9. ASSUME NEW d \in Calls, TimeOut(d) PROVE CredentialsEndWithRound'
  BY <1>9 DEF TimeOut, Goto, Counts, Return
<1>10. ASSUME NEW d \in Calls, FindPod(d) PROVE CredentialsEndWithRound'
  BY <1>10 DEF FindPod, Goto, Return
<1>11. ASSUME NEW d \in Calls, ReadLogs(d) PROVE CredentialsEndWithRound'
  BY <1>11 DEF ReadLogs, Extracted, Goto, Return
<1>12. ASSUME NEW d \in Calls, DeleteJob(d) PROVE CredentialsEndWithRound'
  BY <1>12 DEF DeleteJob, Goto
<1>13. ASSUME NEW d \in Calls, Admit(d) PROVE CredentialsEndWithRound'
  BY <1>13 DEF Admit, Launch
<1>14. ASSUME NEW d \in Calls, Conclude(d) PROVE CredentialsEndWithRound'
  BY <1>14 DEF Conclude
<1>15. ASSUME NEW d \in Calls, Overdue(d) PROVE CredentialsEndWithRound'
  BY <1>15 DEF Overdue, Vanish, ActiveDeadline
<1>16. ASSUME NEW d \in Calls, Clean(d) PROVE CredentialsEndWithRound'
  BY <1>16 DEF Clean
<1>17. ASSUME NEW d \in Calls, WorkerScans(d) PROVE CredentialsEndWithRound'
  BY <1>17 DEF WorkerScans, Generated, Exit
<1>18. ASSUME NEW d \in Calls, WorkerReads(d) PROVE CredentialsEndWithRound'
  BY <1>18 DEF WorkerReads, FetchStoredSBOM, Exit, Spend, Granted
<1>19. ASSUME NEW d \in Calls, NEW doc \in Docs, Post(d, doc) PROVE CredentialsEndWithRound'
  BY <1>19 DEF Post, Upload, InTime, Spend, Granted
<1>20. ASSUME NEW d \in Calls, Tell(d) PROVE CredentialsEndWithRound'
  BY <1>20 DEF Tell, Exit
<1>21. ASSUME NEW d \in Calls, Die(d) PROVE CredentialsEndWithRound'
  BY <1>21 DEF Die, Vanish
<1>22. CASE UNCHANGED vars
  BY <1>22
<1> QED
  BY <1>1, <1>2, <1>3, <1>4, <1>5, <1>6, <1>7, <1>8, <1>9, <1>10, <1>11, <1>12, <1>13, <1>14,
     <1>15, <1>16, <1>17, <1>18, <1>19, <1>20, <1>21, <1>22 DEF Next, CallStep, TrivyStep,
     GrypeStep, UnpackerStep, MalcontentStep, JobSteps, Cluster

\* A round ends only after its calls.
LEMMA EncloseStep == IInv /\ [Next]_vars => RoundsEncloseCalls'
<1> SUFFICES ASSUME IInv, [Next]_vars PROVE RoundsEncloseCalls'
  OBVIOUS
<1> USE CallsAssumption DEF IInv, TypeOK, RoundsEncloseCalls, JobsAreAsOld, Of, vars, caller,
        token, worker
<1>1. ASSUME NEW k \in Rounds, StartRound(k) PROVE RoundsEncloseCalls'
  BY <1>1 DEF StartRound
<1>2. ASSUME NEW k \in Rounds, Persist(k) PROVE RoundsEncloseCalls'
  BY <1>2 DEF Persist, PersistUnawaited, AllReturned
<1>3. ASSUME NEW k \in Rounds, Revoke(k) PROVE RoundsEncloseCalls'
  BY <1>3 DEF Revoke, DeleteScanTokens
<1>4. ASSUME CrashAPI PROVE RoundsEncloseCalls'
  BY <1>4 DEF CrashAPI
<1>5. ASSUME Tick PROVE RoundsEncloseCalls'
  BY <1>5 DEF Tick, AllReturned, ClockCap, ActiveDeadline, Expired
<1>6. ASSUME NEW d \in Calls, Mint(d) PROVE RoundsEncloseCalls'
  BY <1>6 DEF Mint, Goto, Counts, Return
<1>7. ASSUME NEW d \in Calls, Create(d) PROVE RoundsEncloseCalls'
  BY <1>7 DEF Create, Launch, Goto, Return, Expired
<1>8. ASSUME NEW d \in Calls, Poll(d) PROVE RoundsEncloseCalls'
  BY <1>8 DEF Poll, StatusFails, Goto, Counts, Return
<1>9. ASSUME NEW d \in Calls, TimeOut(d) PROVE RoundsEncloseCalls'
  BY <1>9 DEF TimeOut, Goto, Counts, Return
<1>10. ASSUME NEW d \in Calls, FindPod(d) PROVE RoundsEncloseCalls'
  BY <1>10 DEF FindPod, Goto, Return
<1>11. ASSUME NEW d \in Calls, ReadLogs(d) PROVE RoundsEncloseCalls'
  BY <1>11 DEF ReadLogs, Extracted, Goto, Return
<1>12. ASSUME NEW d \in Calls, DeleteJob(d) PROVE RoundsEncloseCalls'
  BY <1>12 DEF DeleteJob, Goto
<1>13. ASSUME NEW d \in Calls, Admit(d) PROVE RoundsEncloseCalls'
  BY <1>13 DEF Admit, Launch
<1>14. ASSUME NEW d \in Calls, Conclude(d) PROVE RoundsEncloseCalls'
  BY <1>14 DEF Conclude
<1>15. ASSUME NEW d \in Calls, Overdue(d) PROVE RoundsEncloseCalls'
  BY <1>15 DEF Overdue, Vanish, ActiveDeadline
<1>16. ASSUME NEW d \in Calls, Clean(d) PROVE RoundsEncloseCalls'
  BY <1>16 DEF Clean
<1>17. ASSUME NEW d \in Calls, WorkerScans(d) PROVE RoundsEncloseCalls'
  BY <1>17 DEF WorkerScans, Generated, Exit
<1>18. ASSUME NEW d \in Calls, WorkerReads(d) PROVE RoundsEncloseCalls'
  BY <1>18 DEF WorkerReads, FetchStoredSBOM, Exit, Spend, Granted
<1>19. ASSUME NEW d \in Calls, NEW doc \in Docs, Post(d, doc) PROVE RoundsEncloseCalls'
  BY <1>19 DEF Post, Upload, InTime, Spend, Granted
<1>20. ASSUME NEW d \in Calls, Tell(d) PROVE RoundsEncloseCalls'
  BY <1>20 DEF Tell, Exit
<1>21. ASSUME NEW d \in Calls, Die(d) PROVE RoundsEncloseCalls'
  BY <1>21 DEF Die, Vanish
<1>22. CASE UNCHANGED vars
  BY <1>22
<1> QED
  BY <1>1, <1>2, <1>3, <1>4, <1>5, <1>6, <1>7, <1>8, <1>9, <1>10, <1>11, <1>12, <1>13, <1>14,
     <1>15, <1>16, <1>17, <1>18, <1>19, <1>20, <1>21, <1>22 DEF Next, CallStep, TrivyStep,
     GrypeStep, UnpackerStep, MalcontentStep, JobSteps, Cluster

\* Time passes only while every call sleeps.
LEMMA JobsStep == IInv /\ [Next]_vars => JobsAreAsOld'
<1> SUFFICES ASSUME IInv, [Next]_vars PROVE JobsAreAsOld'
  OBVIOUS
<1> USE CallsAssumption, BoundsAssumption DEF IInv, TypeOK, RoundsEncloseCalls, JobsAreAsOld,
        PodsFollowJobs, Waiting, Of, vars, caller, token, worker
<1>1. ASSUME NEW k \in Rounds, StartRound(k) PROVE JobsAreAsOld'
  BY <1>1 DEF StartRound
<1>2. ASSUME NEW k \in Rounds, Persist(k) PROVE JobsAreAsOld'
  BY <1>2 DEF Persist, PersistUnawaited, AllReturned
<1>3. ASSUME NEW k \in Rounds, Revoke(k) PROVE JobsAreAsOld'
  BY <1>3 DEF Revoke, DeleteScanTokens
<1>4. ASSUME CrashAPI PROVE JobsAreAsOld'
  BY <1>4 DEF CrashAPI
<1>5. ASSUME Tick PROVE JobsAreAsOld'
  BY <1>5 DEF Tick, AllReturned, ClockCap, ActiveDeadline, Expired
<1>6. ASSUME NEW d \in Calls, Mint(d) PROVE JobsAreAsOld'
  BY <1>6 DEF Mint, Goto, Counts, Return
<1>7. ASSUME NEW d \in Calls, Create(d) PROVE JobsAreAsOld'
  BY <1>7 DEF Create, Launch, Goto, Return, Expired
<1>8. ASSUME NEW d \in Calls, Poll(d) PROVE JobsAreAsOld'
  BY <1>8 DEF Poll, StatusFails, Goto, Counts, Return
<1>9. ASSUME NEW d \in Calls, TimeOut(d) PROVE JobsAreAsOld'
  BY <1>9 DEF TimeOut, Goto, Counts, Return
<1>10. ASSUME NEW d \in Calls, FindPod(d) PROVE JobsAreAsOld'
  BY <1>10 DEF FindPod, Goto, Return
<1>11. ASSUME NEW d \in Calls, ReadLogs(d) PROVE JobsAreAsOld'
  BY <1>11 DEF ReadLogs, Extracted, Goto, Return
<1>12. ASSUME NEW d \in Calls, DeleteJob(d) PROVE JobsAreAsOld'
  BY <1>12 DEF DeleteJob, Goto
<1>13. ASSUME NEW d \in Calls, Admit(d) PROVE JobsAreAsOld'
  BY <1>13 DEF Admit, Launch
<1>14. ASSUME NEW d \in Calls, Conclude(d) PROVE JobsAreAsOld'
  BY <1>14 DEF Conclude
<1>15. ASSUME NEW d \in Calls, Overdue(d) PROVE JobsAreAsOld'
  BY <1>15 DEF Overdue, Vanish, ActiveDeadline
<1>16. ASSUME NEW d \in Calls, Clean(d) PROVE JobsAreAsOld'
  BY <1>16 DEF Clean
<1>17. ASSUME NEW d \in Calls, WorkerScans(d) PROVE JobsAreAsOld'
  BY <1>17 DEF WorkerScans, Generated, Exit
<1>18. ASSUME NEW d \in Calls, WorkerReads(d) PROVE JobsAreAsOld'
  BY <1>18 DEF WorkerReads, FetchStoredSBOM, Exit, Spend, Granted
<1>19. ASSUME NEW d \in Calls, NEW doc \in Docs, Post(d, doc) PROVE JobsAreAsOld'
  BY <1>19 DEF Post, Upload, InTime, Spend, Granted
<1>20. ASSUME NEW d \in Calls, Tell(d) PROVE JobsAreAsOld'
  BY <1>20 DEF Tell, Exit
<1>21. ASSUME NEW d \in Calls, Die(d) PROVE JobsAreAsOld'
  BY <1>21 DEF Die, Vanish
<1>22. CASE UNCHANGED vars
  BY <1>22
<1> QED
  BY <1>1, <1>2, <1>3, <1>4, <1>5, <1>6, <1>7, <1>8, <1>9, <1>10, <1>11, <1>12, <1>13, <1>14,
     <1>15, <1>16, <1>17, <1>18, <1>19, <1>20, <1>21, <1>22 DEF Next, CallStep, TrivyStep,
     GrypeStep, UnpackerStep, MalcontentStep, JobSteps, Cluster

\* A log is complete when the pod has exited.
LEMMA PodsStep == IInv /\ [Next]_vars => PodsFollowJobs'
<1> SUFFICES ASSUME IInv, [Next]_vars PROVE PodsFollowJobs'
  OBVIOUS
<1> USE CallsAssumption DEF IInv, TypeOK, JobsAreAsOld, PodsFollowJobs, RoundsEncloseCalls,
        Waiting, Of, vars, caller, token, worker
<1>1. ASSUME NEW k \in Rounds, StartRound(k) PROVE PodsFollowJobs'
  BY <1>1 DEF StartRound
<1>2. ASSUME NEW k \in Rounds, Persist(k) PROVE PodsFollowJobs'
  BY <1>2 DEF Persist, PersistUnawaited, AllReturned
<1>3. ASSUME NEW k \in Rounds, Revoke(k) PROVE PodsFollowJobs'
  BY <1>3 DEF Revoke, DeleteScanTokens
<1>4. ASSUME CrashAPI PROVE PodsFollowJobs'
  BY <1>4 DEF CrashAPI
<1>5. ASSUME Tick PROVE PodsFollowJobs'
  BY <1>5 DEF Tick, AllReturned, ClockCap, ActiveDeadline, Expired
<1>6. ASSUME NEW d \in Calls, Mint(d) PROVE PodsFollowJobs'
  BY <1>6 DEF Mint, Goto, Counts, Return
<1>7. ASSUME NEW d \in Calls, Create(d) PROVE PodsFollowJobs'
  BY <1>7 DEF Create, Launch, Goto, Return, Expired
<1>8. ASSUME NEW d \in Calls, Poll(d) PROVE PodsFollowJobs'
  BY <1>8 DEF Poll, StatusFails, Goto, Counts, Return
<1>9. ASSUME NEW d \in Calls, TimeOut(d) PROVE PodsFollowJobs'
  BY <1>9 DEF TimeOut, Goto, Counts, Return
<1>10. ASSUME NEW d \in Calls, FindPod(d) PROVE PodsFollowJobs'
  BY <1>10 DEF FindPod, Goto, Return
<1>11. ASSUME NEW d \in Calls, ReadLogs(d) PROVE PodsFollowJobs'
  BY <1>11 DEF ReadLogs, Extracted, Goto, Return
<1>12. ASSUME NEW d \in Calls, DeleteJob(d) PROVE PodsFollowJobs'
  BY <1>12 DEF DeleteJob, Goto
<1>13. ASSUME NEW d \in Calls, Admit(d) PROVE PodsFollowJobs'
  BY <1>13 DEF Admit, Launch
<1>14. ASSUME NEW d \in Calls, Conclude(d) PROVE PodsFollowJobs'
  BY <1>14 DEF Conclude
<1>15. ASSUME NEW d \in Calls, Overdue(d) PROVE PodsFollowJobs'
  BY <1>15 DEF Overdue, Vanish, ActiveDeadline
<1>16. ASSUME NEW d \in Calls, Clean(d) PROVE PodsFollowJobs'
  BY <1>16 DEF Clean
<1>17. ASSUME NEW d \in Calls, WorkerScans(d) PROVE PodsFollowJobs'
  BY <1>17 DEF WorkerScans, Generated, Exit
<1>18. ASSUME NEW d \in Calls, WorkerReads(d) PROVE PodsFollowJobs'
  BY <1>18 DEF WorkerReads, FetchStoredSBOM, Exit, Spend, Granted
<1>19. ASSUME NEW d \in Calls, NEW doc \in Docs, Post(d, doc) PROVE PodsFollowJobs'
  BY <1>19 DEF Post, Upload, InTime, Spend, Granted
<1>20. ASSUME NEW d \in Calls, Tell(d) PROVE PodsFollowJobs'
  BY <1>20 DEF Tell, Exit
<1>21. ASSUME NEW d \in Calls, Die(d) PROVE PodsFollowJobs'
  BY <1>21 DEF Die, Vanish
<1>22. CASE UNCHANGED vars
  BY <1>22
<1> QED
  BY <1>1, <1>2, <1>3, <1>4, <1>5, <1>6, <1>7, <1>8, <1>9, <1>10, <1>11, <1>12, <1>13, <1>14,
     <1>15, <1>16, <1>17, <1>18, <1>19, <1>20, <1>21, <1>22 DEF Next, CallStep, TrivyStep,
     GrypeStep, UnpackerStep, MalcontentStep, JobSteps, Cluster

\* A token and its round age together.
LEMMA TokensStep == IInv /\ [Next]_vars => TokensAreAsOld'
<1> SUFFICES ASSUME IInv, [Next]_vars PROVE TokensAreAsOld'
  OBVIOUS
<1> USE CallsAssumption, BoundsAssumption DEF IInv, TypeOK, JobsAreAsOld, RoundsEncloseCalls,
        TokensAreAsOld, Waiting, Revoked, TokenTTL, NeedsToken, TrivySends, Reads, TrivyReads,
        GrypeReads, Of, vars, caller, token, worker
<1>1. ASSUME NEW k \in Rounds, StartRound(k) PROVE TokensAreAsOld'
  BY <1>1 DEF StartRound
<1>2. ASSUME NEW k \in Rounds, Persist(k) PROVE TokensAreAsOld'
  BY <1>2 DEF Persist, PersistUnawaited, AllReturned
<1>3. ASSUME NEW k \in Rounds, Revoke(k) PROVE TokensAreAsOld'
  BY <1>3 DEF Revoke, DeleteScanTokens
<1>4. ASSUME CrashAPI PROVE TokensAreAsOld'
  BY <1>4 DEF CrashAPI
<1>5. ASSUME Tick PROVE TokensAreAsOld'
  BY <1>5 DEF Tick, AllReturned, ClockCap, ActiveDeadline, Expired
<1>6. ASSUME NEW d \in Calls, Mint(d) PROVE TokensAreAsOld'
  BY <1>6 DEF Mint, Goto, Counts, Return
<1>7. ASSUME NEW d \in Calls, Create(d) PROVE TokensAreAsOld'
  BY <1>7 DEF Create, Launch, Goto, Return, Expired
<1>8. ASSUME NEW d \in Calls, Poll(d) PROVE TokensAreAsOld'
  BY <1>8 DEF Poll, StatusFails, Goto, Counts, Return
<1>9. ASSUME NEW d \in Calls, TimeOut(d) PROVE TokensAreAsOld'
  BY <1>9 DEF TimeOut, Goto, Counts, Return
<1>10. ASSUME NEW d \in Calls, FindPod(d) PROVE TokensAreAsOld'
  BY <1>10 DEF FindPod, Goto, Return
<1>11. ASSUME NEW d \in Calls, ReadLogs(d) PROVE TokensAreAsOld'
  BY <1>11 DEF ReadLogs, Extracted, Goto, Return
<1>12. ASSUME NEW d \in Calls, DeleteJob(d) PROVE TokensAreAsOld'
  BY <1>12 DEF DeleteJob, Goto
<1>13. ASSUME NEW d \in Calls, Admit(d) PROVE TokensAreAsOld'
  BY <1>13 DEF Admit, Launch
<1>14. ASSUME NEW d \in Calls, Conclude(d) PROVE TokensAreAsOld'
  BY <1>14 DEF Conclude
<1>15. ASSUME NEW d \in Calls, Overdue(d) PROVE TokensAreAsOld'
  BY <1>15 DEF Overdue, Vanish, ActiveDeadline
<1>16. ASSUME NEW d \in Calls, Clean(d) PROVE TokensAreAsOld'
  BY <1>16 DEF Clean
<1>17. ASSUME NEW d \in Calls, WorkerScans(d) PROVE TokensAreAsOld'
  BY <1>17 DEF WorkerScans, Generated, Exit
<1>18. ASSUME NEW d \in Calls, WorkerReads(d) PROVE TokensAreAsOld'
  BY <1>18 DEF WorkerReads, FetchStoredSBOM, Exit, Spend, Granted
<1>19. ASSUME NEW d \in Calls, NEW doc \in Docs, Post(d, doc) PROVE TokensAreAsOld'
  BY <1>19 DEF Post, Upload, InTime, Spend, Granted
<1>20. ASSUME NEW d \in Calls, Tell(d) PROVE TokensAreAsOld'
  BY <1>20 DEF Tell, Exit
<1>21. ASSUME NEW d \in Calls, Die(d) PROVE TokensAreAsOld'
  BY <1>21 DEF Die, Vanish
<1>22. CASE UNCHANGED vars
  BY <1>22
<1> QED
  BY <1>1, <1>2, <1>3, <1>4, <1>5, <1>6, <1>7, <1>8, <1>9, <1>10, <1>11, <1>12, <1>13, <1>14,
     <1>15, <1>16, <1>17, <1>18, <1>19, <1>20, <1>21, <1>22 DEF Next, CallStep, TrivyStep,
     GrypeStep, UnpackerStep, MalcontentStep, JobSteps, Cluster

\* Types, the end of credentials with their round, and how the ages of
\* rounds, Jobs and tokens relate, for any rounds, calls and time bounds.
THEOREM Inductive == Spec => []IInv
<1>1. Init => IInv
  BY BoundsAssumption, CallsAssumption DEF Init, Untouched, IInv, TypeOK, CredentialsEndWithRound,
     RoundsEncloseCalls, JobsAreAsOld, PodsFollowJobs, TokensAreAsOld, Waiting, TokenTTL
<1>2. IInv /\ [Next]_vars => IInv'
  BY TypeStep, CredentialStep, EncloseStep, JobsStep, PodsStep, TokensStep DEF IInv
<1> QED
  BY <1>1, <1>2, PTL DEF Spec

\* Whatever rounds overlap, crash or fail to revoke: once a round could
\* revoke, no token that was minted for its Jobs is accepted any more.
THEOREM CredentialsEnd == Spec => []CredentialsEndWithRound
  BY Inductive, PTL DEF IInv

\* Only the end of another round takes a worker's token away while its
\* caller waits for it: the token's life covers the Job's deadline.
THEOREM TokensLast == Spec => []OnlyOverlapRevokes
<1>1. IInv => OnlyOverlapRevokes
  <2> SUFFICES ASSUME IInv, NEW c \in Calls, Awaited(c), NeedsToken(c), life[c] = 0
               PROVE  Revoked(c)
    BY DEF OnlyOverlapRevokes, Revoked
  <2>1. RoundOf[c] \in Rounds /\ Deadline \in Nat /\ Grace \in Nat \ {0}
    BY CallsAssumption, BoundsAssumption
  <2>2. Waiting(c) /\ job[c] = "active"
    BY DEF IInv, TypeOK, Awaited, Waiting, JobsAreAsOld, PodsFollowJobs
  <2>3. age[RoundOf[c]] \in Nat /\ age[RoundOf[c]] <= Deadline
    BY <2>1, <2>2 DEF IInv, TypeOK, JobsAreAsOld
  <2>4. life[c] + age[RoundOf[c]] >= TokenTTL \/ Revoked(c)
    BY <2>2 DEF IInv, TokensAreAsOld
  <2> QED
    BY <2>1, <2>3, <2>4 DEF TokenTTL
<1> QED
  BY <1>1, Inductive, PTL

\* A call returns findings only from the log of a worker that finished.
THEOREM WholeReports == Spec => FindingsAreWhole
<1>1. IInv /\ [Next]_vars => ReturnsWhole
  <2> SUFFICES ASSUME IInv, [Next]_vars PROVE ReturnsWhole
    OBVIOUS
  <2> USE CallsAssumption DEF IInv, TypeOK, ReturnsWhole, PodsFollowJobs, vars, caller, token,
          worker
  <2>1. ASSUME NEW k \in Rounds, StartRound(k) PROVE ReturnsWhole
    BY <2>1 DEF StartRound
  <2>2. ASSUME NEW k \in Rounds, Persist(k) PROVE ReturnsWhole
    BY <2>2 DEF Persist, PersistUnawaited, AllReturned
  <2>3. ASSUME NEW k \in Rounds, Revoke(k) PROVE ReturnsWhole
    BY <2>3 DEF Revoke, DeleteScanTokens
  <2>4. ASSUME CrashAPI PROVE ReturnsWhole
    BY <2>4 DEF CrashAPI
  <2>5. ASSUME Tick PROVE ReturnsWhole
    BY <2>5 DEF Tick, AllReturned, ClockCap, ActiveDeadline, Expired
  <2>6. ASSUME NEW d \in Calls, Mint(d) PROVE ReturnsWhole
    BY <2>6 DEF Mint, Goto, Counts, Return
  <2>7. ASSUME NEW d \in Calls, Create(d) PROVE ReturnsWhole
    BY <2>7 DEF Create, Launch, Goto, Return, Expired
  <2>8. ASSUME NEW d \in Calls, Poll(d) PROVE ReturnsWhole
    BY <2>8 DEF Poll, StatusFails, Goto, Counts, Return
  <2>9. ASSUME NEW d \in Calls, TimeOut(d) PROVE ReturnsWhole
    BY <2>9 DEF TimeOut, Goto, Counts, Return
  <2>10. ASSUME NEW d \in Calls, FindPod(d) PROVE ReturnsWhole
    BY <2>10 DEF FindPod, Goto, Return
  <2>11. ASSUME NEW d \in Calls, ReadLogs(d) PROVE ReturnsWhole
    BY <2>11 DEF ReadLogs, Extracted, Goto, Return
  <2>12. ASSUME NEW d \in Calls, DeleteJob(d) PROVE ReturnsWhole
    BY <2>12 DEF DeleteJob, Goto
  <2>13. ASSUME NEW d \in Calls, Admit(d) PROVE ReturnsWhole
    BY <2>13 DEF Admit, Launch
  <2>14. ASSUME NEW d \in Calls, Conclude(d) PROVE ReturnsWhole
    BY <2>14 DEF Conclude
  <2>15. ASSUME NEW d \in Calls, Overdue(d) PROVE ReturnsWhole
    BY <2>15 DEF Overdue, Vanish, ActiveDeadline
  <2>16. ASSUME NEW d \in Calls, Clean(d) PROVE ReturnsWhole
    BY <2>16 DEF Clean
  <2>17. ASSUME NEW d \in Calls, WorkerScans(d) PROVE ReturnsWhole
    BY <2>17 DEF WorkerScans, Generated, Exit
  <2>18. ASSUME NEW d \in Calls, WorkerReads(d) PROVE ReturnsWhole
    BY <2>18 DEF WorkerReads, FetchStoredSBOM, Exit, Spend, Granted
  <2>19. ASSUME NEW d \in Calls, NEW doc \in Docs, Post(d, doc) PROVE ReturnsWhole
    BY <2>19 DEF Post, Upload, InTime, Spend, Granted
  <2>20. ASSUME NEW d \in Calls, Tell(d) PROVE ReturnsWhole
    BY <2>20 DEF Tell, Exit
  <2>21. ASSUME NEW d \in Calls, Die(d) PROVE ReturnsWhole
    BY <2>21 DEF Die, Vanish
  <2>22. CASE UNCHANGED vars
    BY <2>22
  <2> QED
    BY <2>1, <2>2, <2>3, <2>4, <2>5, <2>6, <2>7, <2>8, <2>9, <2>10, <2>11, <2>12, <2>13, <2>14,
       <2>15, <2>16, <2>17, <2>18, <2>19, <2>20, <2>21, <2>22 DEF Next, CallStep,
       TrivyStep, GrypeStep, UnpackerStep, MalcontentStep, JobSteps, Cluster
<1> QED
  BY <1>1, Inductive, PTL DEF Spec, FindingsAreWhole

\* With the scan timeout above the deadline by more than a check, a round
\* gives up on a Job only when it could not ask for its status.
THEOREM KilledFirst == Spec => KilledBeforeTimeout
<1>1. IInv /\ [Next]_vars => TimesOutUnheard
  <2> SUFFICES ASSUME IInv, [Next]_vars PROVE TimesOutUnheard
    OBVIOUS
  <2> USE CallsAssumption, BoundsAssumption, TimeoutAssumption DEF IInv, TypeOK,
          TimesOutUnheard, JobsAreAsOld, RoundsEncloseCalls, Waiting, Expired, vars, caller,
          token, worker
  <2>1. ASSUME NEW k \in Rounds, StartRound(k) PROVE TimesOutUnheard
    BY <2>1 DEF StartRound
  <2>2. ASSUME NEW k \in Rounds, Persist(k) PROVE TimesOutUnheard
    BY <2>2 DEF Persist, PersistUnawaited, AllReturned
  <2>3. ASSUME NEW k \in Rounds, Revoke(k) PROVE TimesOutUnheard
    BY <2>3 DEF Revoke, DeleteScanTokens
  <2>4. ASSUME CrashAPI PROVE TimesOutUnheard
    BY <2>4 DEF CrashAPI
  <2>5. ASSUME Tick PROVE TimesOutUnheard
    BY <2>5 DEF Tick, AllReturned, ClockCap, ActiveDeadline, Expired
  <2>6. ASSUME NEW d \in Calls, Mint(d) PROVE TimesOutUnheard
    BY <2>6 DEF Mint, Goto, Counts, Return
  <2>7. ASSUME NEW d \in Calls, Create(d) PROVE TimesOutUnheard
    BY <2>7 DEF Create, Launch, Goto, Return, Expired
  <2>8. ASSUME NEW d \in Calls, Poll(d) PROVE TimesOutUnheard
    BY <2>8 DEF Poll, StatusFails, Goto, Counts, Return
  <2>9. ASSUME NEW d \in Calls, TimeOut(d) PROVE TimesOutUnheard
    BY <2>9 DEF TimeOut, Goto, Counts, Return
  <2>10. ASSUME NEW d \in Calls, FindPod(d) PROVE TimesOutUnheard
    BY <2>10 DEF FindPod, Goto, Return
  <2>11. ASSUME NEW d \in Calls, ReadLogs(d) PROVE TimesOutUnheard
    BY <2>11 DEF ReadLogs, Extracted, Goto, Return
  <2>12. ASSUME NEW d \in Calls, DeleteJob(d) PROVE TimesOutUnheard
    BY <2>12 DEF DeleteJob, Goto
  <2>13. ASSUME NEW d \in Calls, Admit(d) PROVE TimesOutUnheard
    BY <2>13 DEF Admit, Launch
  <2>14. ASSUME NEW d \in Calls, Conclude(d) PROVE TimesOutUnheard
    BY <2>14 DEF Conclude
  <2>15. ASSUME NEW d \in Calls, Overdue(d) PROVE TimesOutUnheard
    BY <2>15 DEF Overdue, Vanish, ActiveDeadline
  <2>16. ASSUME NEW d \in Calls, Clean(d) PROVE TimesOutUnheard
    BY <2>16 DEF Clean
  <2>17. ASSUME NEW d \in Calls, WorkerScans(d) PROVE TimesOutUnheard
    BY <2>17 DEF WorkerScans, Generated, Exit
  <2>18. ASSUME NEW d \in Calls, WorkerReads(d) PROVE TimesOutUnheard
    BY <2>18 DEF WorkerReads, FetchStoredSBOM, Exit, Spend, Granted
  <2>19. ASSUME NEW d \in Calls, NEW doc \in Docs, Post(d, doc) PROVE TimesOutUnheard
    BY <2>19 DEF Post, Upload, InTime, Spend, Granted
  <2>20. ASSUME NEW d \in Calls, Tell(d) PROVE TimesOutUnheard
    BY <2>20 DEF Tell, Exit
  <2>21. ASSUME NEW d \in Calls, Die(d) PROVE TimesOutUnheard
    BY <2>21 DEF Die, Vanish
  <2>22. CASE UNCHANGED vars
    BY <2>22
  <2> QED
    BY <2>1, <2>2, <2>3, <2>4, <2>5, <2>6, <2>7, <2>8, <2>9, <2>10, <2>11, <2>12, <2>13, <2>14,
       <2>15, <2>16, <2>17, <2>18, <2>19, <2>20, <2>21, <2>22 DEF Next, CallStep,
       TrivyStep, GrypeStep, UnpackerStep, MalcontentStep, JobSteps, Cluster
<1> QED
  BY <1>1, Inductive, PTL DEF Spec, KilledBeforeTimeout
=============================================================================
