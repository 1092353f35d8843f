---------------------------- MODULE PlatformProofs ----------------------------
(***************************************************************************)
(* The pages of the web application, for any number of tabs, logins and    *)
(* failing calls (Platform): every variable keeps its type; who has        *)
(* completed the onboarding has an instance, or had one deleted; the last  *)
(* request carries what was decided last; the settings page shows what the *)
(* server has.                                                             *)
(*                                                                         *)
(* The second is about two rows that different programs write.  It is kept *)
(* because the request of the last step gets past the creation only when   *)
(* there is an instance (PastCreation), and only a deletion takes one      *)
(* away.  The others build on it: what is known of the two rows            *)
(* (PlatformInv), then of the types (Typed), of the steps' state against   *)
(* the decisions (ChoicesKept) and of each settings page against the row   *)
(* (ServerShown).                                                          *)
(***************************************************************************)
EXTENDS Platform, TLAPS

PostPcs == {"idle", "auth", "create", "insert", "configure", "complete"}

\* The bodies do not matter here.
PostShaped == \E B : post \in [WizardTabs -> [pc : PostPcs, body : B]]

RowsTyped == instance \in Instances \cup {None} /\ deleted \in BOOLEAN /\ apiKey \in BOOLEAN

\* There is an instance, or there was one until it was deleted.
Owned == instance # None \/ deleted

PastCreation == \A t \in WizardTabs : post[t].pc \in {"configure", "complete"} => Owned

PlatformInv ==
    /\ RowsTyped
    /\ put \in [Tabs -> [kind : Kinds, pc : Pcs]]
    /\ PostShaped
    /\ PastCreation
    /\ CompletedHasInstance

-----------------------------------------------------------------------------
LEMMA PlatformInit == Init => PlatformInv
<1> SUFFICES ASSUME Init PROVE PlatformInv
  OBVIOUS
<1> USE DEF Init, SiteInit, WizardInit, DashInit
<1>1. progress = "none" /\ RowsTyped
  BY DEF RowsTyped
<1>2. put \in [Tabs -> [kind : Kinds, pc : Pcs]]
  BY DEF NoPut, Kinds, Pcs
<1>3. post = [t \in WizardTabs |-> NoPost]
  OBVIOUS
<1>4. post \in [WizardTabs -> [pc : PostPcs, body : {NoPost.body}]]
  BY <1>3 DEF NoPost, PostPcs
<1>5. PostShaped
  BY <1>4 DEF PostShaped
<1>6. PastCreation
  BY <1>3 DEF PastCreation, NoPost
<1> QED BY <1>1, <1>2, <1>5, <1>6 DEF PlatformInv, CompletedHasInstance

-----------------------------------------------------------------------------
(* The two rows                                                            *)

LEMMA InstanceIsSome == \A i \in Instances : i # None
BY NoneIsNone

LEMMA StatusSet ==
    ASSUME NEW i \in Instances, NEW st \in Statuses
    PROVE  [i EXCEPT !.status = st] \in Instances
BY DEF Instances

\* An update of the status gives the user no instance and takes none away.
LEMMA UpdateKeepsRow ==
    ASSUME RowsTyped, NEW st \in Statuses, instance' = WithStatus(st), UNCHANGED <<deleted, apiKey>>
    PROVE  RowsTyped' /\ (instance' = None <=> instance = None) /\ Owned' = Owned
<1>1. CASE instance = None
  BY <1>1 DEF WithStatus, RowsTyped, Owned
<1>2. CASE instance \in Instances
  <2>1. instance' \in Instances /\ instance # None /\ instance' # None
    BY <1>2, StatusSet, InstanceIsSome DEF WithStatus
  <2> QED BY <2>1 DEF RowsTyped, Owned
<1> QED BY <1>1, <1>2 DEF RowsTyped

LEMMA UpdatedTyped ==
    ASSUME NEW s \in [key : BOOLEAN, llm : Llms], NEW k \in Kinds
    PROVE  Updated(k, s) \in [key : BOOLEAN, llm : Llms]
BY DEF Updated, Kinds, Llms

\* A step that leaves the requests where they are, and gives an instance up
\* only by deleting it.
LEMMA RowKept ==
    ASSUME PlatformInv,
           put' \in [Tabs -> [kind : Kinds, pc : Pcs]],
           UNCHANGED post,
           progress' = "completed" => progress = "completed",
           RowsTyped', Owned => Owned'
    PROVE  PlatformInv'
<1>1. PostShaped' /\ PastCreation'
  BY DEF PlatformInv, PostShaped, PastCreation
<1>2. CompletedHasInstance'
  BY DEF PlatformInv, CompletedHasInstance, Owned
<1> QED BY <1>1, <1>2 DEF PlatformInv

\* A step of the request of the last onboarding step.
LEMMA PostKept ==
    ASSUME PlatformInv, NEW t \in WizardTabs, NEW pc \in PostPcs, NEW b,
           post' = [post EXCEPT ![t] = [pc |-> pc, body |-> b]]
              \/ post' = [post EXCEPT ![t].pc = pc],
           UNCHANGED put,
           RowsTyped', Owned => Owned',
           pc \in {"configure", "complete"} => Owned',
           progress' = "completed" => progress = "completed" \/ Owned'
    PROVE  PlatformInv'
<1>1. PICK B : post \in [WizardTabs -> [pc : PostPcs, body : B]]
  BY DEF PlatformInv, PostShaped
<1>2. post' \in [WizardTabs -> [pc : PostPcs, body : B \cup {b}]]
  BY <1>1
<1>3. PostShaped'
  BY <1>2 DEF PostShaped
<1>4. \A u \in WizardTabs : post'[u].pc = IF u = t THEN pc ELSE post[u].pc
  BY <1>1
<1>5. PastCreation'
  BY <1>4 DEF PlatformInv, PastCreation
<1>6. CompletedHasInstance'
  BY DEF PlatformInv, CompletedHasInstance, Owned
<1> QED BY <1>3, <1>5, <1>6 DEF PlatformInv

-----------------------------------------------------------------------------
(* The steps                                                               *)

\* Nothing about the rows changes.
LEMMA RowsStay ==
    ASSUME PlatformInv, UNCHANGED database
    PROVE  RowsTyped' /\ Owned' = Owned /\ UNCHANGED <<instance, progress>>
BY DEF database, PlatformInv, RowsTyped, Owned

LEMMA SiteKeeps ==
    ASSUME PlatformInv, NEW t \in Tabs, SiteStep(t), LeaveWizard(t), LeaveSettings(t)
    PROVE  PlatformInv'
<1>1. UNCHANGED database
  BY DEF SiteStep, Request, Middleware, MiddlewareFails, HandleEmailLogin,
         HandleEmailSignup, Callback, CallbackFails, HandleLogout
<1>2. UNCHANGED post
  BY DEF LeaveWizard
<1>3. put[t] \in [kind : Kinds, pc : Pcs]
  BY DEF PlatformInv
<1>4. [put[t] EXCEPT !.pc = "left"] \in [kind : Kinds, pc : Pcs]
  BY <1>3 DEF Pcs
<1>5. NoPut \in [kind : Kinds, pc : Pcs]
  BY DEF NoPut, Kinds, Pcs
<1>6. put' \in [Tabs -> [kind : Kinds, pc : Pcs]]
  BY <1>3, <1>4, <1>5 DEF LeaveSettings, PlatformInv
<1> QED BY <1>1, <1>2, <1>6, RowsStay, RowKept

LEMMA ChecksKeep ==
    ASSUME PlatformInv, NEW t \in Tabs, CheckStatus(t) \/ CheckStatusFails(t), UNCHANGED dash
    PROVE  PlatformInv'
<1>1. UNCHANGED <<database, post, put>>
  BY DEF CheckStatus, CheckStatusFails, wizard, dash
<1> QED BY <1>1, RowsStay, RowKept DEF PlatformInv

\* What Now makes of a request is one, or none.
LEMMA NowTyped ==
    ASSUME put \in [Tabs -> [kind : Kinds, pc : Pcs]], NEW t \in Tabs, NEW pc \in Pcs
    PROVE  Now(t, pc) \in [kind : Kinds, pc : Pcs]
<1>1. NoPut \in [kind : Kinds, pc : Pcs]
  BY DEF NoPut, Kinds, Pcs
<1>2. [put[t] EXCEPT !.pc = pc] \in [kind : Kinds, pc : Pcs]
  OBVIOUS
<1> QED BY <1>1, <1>2 DEF Now

LEMMA DashKeeps ==
    ASSUME PlatformInv, NEW t \in Tabs, DashStep(t), UNCHANGED wizard
    PROVE  PlatformInv'
<1> DEFINE Puts == [Tabs -> [kind : Kinds, pc : Pcs]]
<1>1. put \in Puts /\ RowsTyped
  BY DEF PlatformInv
<1>2. UNCHANGED post
  BY DEF wizard
<1>3. NoPut \in [kind : Kinds, pc : Pcs] /\ Pcs = {"idle", "sent", "left", "answered"}
  BY DEF NoPut, Kinds, Pcs
<1>4. CASE \/ FetchInstance(t) \/ FetchInstanceFails(t) \/ RefuseRestart(t) \/ RestartFails(t)
           \/ ReadRow(t) \/ LoadConfig(t) \/ RefuseLoad(t) \/ LoadConfigFails(t)
  <2>1. UNCHANGED <<database, put>>
    BY <1>4 DEF FetchInstance, FetchInstanceFails, RefuseRestart, RestartFails, ReadRow, LoadConfig,
                RefuseLoad, LoadConfigFails, dash
  <2> QED BY <1>1, <1>2, <2>1, RowsStay, RowKept
<1>5. CASE HandleRestart(t) \/ Restarted(t)
  <2>1. \E st \in Statuses : instance' = WithStatus(st)
    BY <1>5 DEF HandleRestart, Restarted, WithStatus, Statuses
  <2>2. UNCHANGED <<deleted, apiKey, progress, put>>
    BY <1>5 DEF HandleRestart, Restarted
  <2>3. RowsTyped' /\ Owned' = Owned
    BY <1>1, <2>1, <2>2, UpdateKeepsRow
  <2> QED BY <1>1, <1>2, <2>2, <2>3, RowKept
<1>8. CASE SubmitConfig(t) \/ RefuseConfig(t) \/ UpdateConfigFails(t) \/ ConfigAnswered(t)
  <2>1. UNCHANGED database
    BY <1>8 DEF SubmitConfig, RefuseConfig, UpdateConfigFails, ConfigAnswered, site
  <2>2. ASSUME SubmitConfig(t) PROVE put' \in Puts
    <3>1. PICK k \in Offered(t) : put' = [put EXCEPT ![t] = [kind |-> k, pc |-> "sent"]]
      BY <2>2 DEF SubmitConfig
    <3>2. k \in Kinds
      BY DEF Offered
    <3> QED BY <1>1, <1>3, <3>1, <3>2
  <2>3. ASSUME UpdateConfigFails(t) PROVE put' \in Puts
    <3>1. PICK pc \in {"answered", "idle"} : put' = [put EXCEPT ![t] = Now(t, pc)]
      BY <2>3 DEF UpdateConfigFails
    <3>2. Now(t, pc) \in [kind : Kinds, pc : Pcs]
      BY <1>1, <1>3, NowTyped
    <3> QED BY <1>1, <3>1, <3>2
  <2>4. ASSUME RefuseConfig(t) \/ ConfigAnswered(t) PROVE put' \in Puts
    BY <1>1, <1>3, <2>4 DEF RefuseConfig, ConfigAnswered
  <2>5. put' \in Puts
    BY <1>8, <2>2, <2>3, <2>4
  <2> QED BY <1>2, <2>1, <2>5, RowsStay, RowKept
<1>9. CASE UpdateConfig(t)
  <2> DEFINE new == Updated(put[t].kind, Has)
  <2>1. instance \in Instances
    BY <1>1, <1>9 DEF UpdateConfig, Refuses, RowsTyped
  <2>2. Has \in [key : BOOLEAN, llm : Llms]
    BY <1>1, <2>1 DEF Has, Instances, RowsTyped
  <2>3. new \in [key : BOOLEAN, llm : Llms]
    BY <1>1, <2>2, UpdatedTyped
  <2>4. /\ instance' = [instance EXCEPT !.llm = new.llm] /\ apiKey' = new.key
        /\ UNCHANGED deleted
    BY <1>9 DEF UpdateConfig
  <2> HIDE DEF new
  <2>5. instance' \in Instances /\ apiKey' \in BOOLEAN
    BY <2>1, <2>3, <2>4 DEF Instances
  <2>6. Now(t, "answered") \in [kind : Kinds, pc : Pcs]
    BY <1>1, <1>3, NowTyped
  <2>7. put' \in Puts /\ UNCHANGED progress
    BY <1>1, <1>9, <2>6 DEF UpdateConfig
  <2>8. RowsTyped' /\ Owned'
    BY <1>1, <2>4, <2>5, InstanceIsSome DEF RowsTyped, Owned
  <2> QED BY <1>2, <2>7, <2>8, RowKept
<1> QED BY <1>4, <1>5, <1>8, <1>9 DEF DashStep

LEMMA ContainerKeeps ==
    ASSUME PlatformInv, NEW s \in {"stopped", "running"}, ContainerTurns(s), UNCHANGED wizard
    PROVE  PlatformInv'
<1>1. instance' = WithStatus(s) /\ s \in Statuses
  BY DEF ContainerTurns, WithStatus, Statuses
<1>2. UNCHANGED <<deleted, apiKey, progress, post, put>>
  BY DEF ContainerTurns, wizard, dash
<1> QED BY <1>1, <1>2, UpdateKeepsRow, RowKept DEF PlatformInv

\* Another client creates the instance or deletes it.
LEMMA OtherClientKeeps ==
    ASSUME PlatformInv, CreateElsewhere \/ (DeleteInstance /\ UNCHANGED wizard)
    PROVE  PlatformInv'
<1>1. UNCHANGED <<apiKey, post, put>> /\ put \in [Tabs -> [kind : Kinds, pc : Pcs]]
  BY DEF CreateElsewhere, DeleteInstance, wizard, dash, PlatformInv
<1>2. CASE CreateElsewhere
  <2>1. instance' \in Instances /\ deleted' = FALSE
    BY <1>2 DEF CreateElsewhere, Instances, Statuses, Llms
  <2>2. RowsTyped' /\ Owned'
    BY <1>1, <2>1, InstanceIsSome DEF PlatformInv, RowsTyped, Owned
  <2> QED BY <1>1, <1>2, <2>2, RowKept DEF CreateElsewhere, Begun
<1>3. CASE DeleteInstance
  <2>1. RowsTyped' /\ Owned' /\ UNCHANGED progress
    BY <1>1, <1>3 DEF DeleteInstance, PlatformInv, RowsTyped, Owned
  <2> QED BY <1>1, <2>1, RowKept
<1> QED BY <1>2, <1>3

LEMMA WizardKeeps ==
    ASSUME PlatformInv, NEW t \in WizardTabs, WizardStep(t), UNCHANGED dash
    PROVE  PlatformInv'
<1>1. RowsTyped /\ put \in [Tabs -> [kind : Kinds, pc : Pcs]]
  BY DEF PlatformInv
<1>2. UNCHANGED put
  BY DEF dash
<1>3. PostPcs = {"idle", "auth", "create", "insert", "configure", "complete"}
  BY DEF PostPcs
<1>4. NoPost = [pc |-> "idle", body |-> NoPost.body]
  BY DEF NoPost
<1>5. ASSUME NEW d, NEW what, Complete(t, d, what) PROVE PlatformInv'
  <2>1. /\ post' = [post EXCEPT ![t] = [pc |-> "auth", body |-> Body(d)]]
        /\ UNCHANGED database
    BY <1>5 DEF Complete, site
  <2>2. "auth" \in PostPcs
    BY <1>3
  <2>3. RowsTyped' /\ (Owned => Owned') /\ UNCHANGED progress
    BY <2>1, RowsStay
  <2> DEFINE b == Body(d)
  <2>4. post' = [post EXCEPT ![t] = [pc |-> "auth", body |-> b]]
    BY <2>1
  <2> HIDE DEF b
  <2> QED BY <1>2, <2>2, <2>3, <2>4, PostKept
<1>6. ASSUME UNCHANGED <<site, post>> PROVE PlatformInv'
  BY <1>1, <1>2, <1>6, RowsStay, RowKept DEF site
<1>7. CASE Step1ApiKey(t)
  BY <1>6, <1>7 DEF Step1ApiKey, Becomes
<1>8. CASE Step2Agent(t)
  BY <1>6, <1>8 DEF Step2Agent, Becomes
<1>9. CASE Step3ChannelSelect(t)
  BY <1>5, <1>6, <1>9 DEF Step3ChannelSelect, Becomes
<1>10. CASE Step4ChannelSetup(t)
  BY <1>5, <1>6, <1>10 DEF Step4ChannelSetup, Becomes
<1>11. CASE Step5Complete(t)
  <2>1. UNCHANGED <<database, post>>
    BY <1>11 DEF Step5Complete, LeaveWizard, site
  <2> QED BY <1>1, <1>2, <2>1, RowsStay, RowKept
\* Where the request goes on, and where it ends.
<1>12. ASSUME NEW from, NEW to, Proceed(t, from, to)
       PROVE  post[t].pc = from /\ post' = [post EXCEPT ![t].pc = to]
  BY <1>12 DEF Proceed
<1>13. ASSUME NEW from, NEW status, Answer(t, from, status)
       PROVE  post[t].pc = from /\ post' = [post EXCEPT ![t] = [pc |-> "idle", body |-> NoPost.body]]
  BY <1>4, <1>13 DEF Answer
<1>14. post[t].pc \in {"configure", "complete"} => Owned
  BY DEF PlatformInv, PastCreation
<1>15. Inserts /\ UNCHANGED apiKey => RowsTyped' /\ Owned'
  <2> SUFFICES ASSUME Inserts, UNCHANGED apiKey PROVE RowsTyped' /\ Owned'
    OBVIOUS
  <2>1. instance' \in Instances /\ deleted' = FALSE
    BY DEF Inserts, Instances, Statuses, Llms
  <2> QED BY <1>1, <2>1, InstanceIsSome DEF RowsTyped, Owned
\* The request goes on or ends, and nothing is given up.
<1>16. ASSUME RowsTyped', Owned => Owned', NEW to \in PostPcs \ {"configure", "complete"},
              \/ post' = [post EXCEPT ![t].pc = to]
              \/ post' = [post EXCEPT ![t] = [pc |-> to, body |-> NoPost.body]],
              progress' = "completed" => progress = "completed" \/ Owned'
       PROVE  PlatformInv'
  BY <1>2, <1>16, PostKept
<1>17. CASE PostAuth(t)
  <2>1. UNCHANGED database
    BY <1>17 DEF PostAuth
  <2>2. \/ post' = [post EXCEPT ![t].pc = "create"]
        \/ post' = [post EXCEPT ![t] = [pc |-> "idle", body |-> NoPost.body]]
    BY <1>12, <1>13, <1>17 DEF PostAuth
  <2> QED BY <1>3, <1>16, <2>1, <2>2, RowsStay
<1>18. CASE PostCreate(t)
  <2>1. UNCHANGED database
    BY <1>18 DEF PostCreate
  <2>2. CASE instance = None
    <3>1. post' = [post EXCEPT ![t].pc = "insert"]
      BY <1>12, <1>18, <2>2 DEF PostCreate
    <3>2. "insert" \in PostPcs \ {"configure", "complete"}
      BY <1>3
    <3> QED BY <1>1, <1>16, <2>1, <3>1, <3>2, RowsStay
  <2>3. CASE instance # None
    <3>1. post' = [post EXCEPT ![t].pc = "complete"] /\ Owned
      BY <1>12, <1>18, <2>3 DEF PostCreate, Owned
    <3> QED BY <1>2, <1>3, <2>1, <3>1, RowsStay, PostKept
  <2> QED BY <2>2, <2>3
<1>19. CASE PostInsert(t)
  <2>1. UNCHANGED <<apiKey, progress>>
    BY <1>19 DEF PostInsert
  <2>2. CASE Inserts /\ Proceed(t, "insert", "configure")
    BY <1>2, <1>3, <1>12, <1>15, <2>1, <2>2, PostKept
  <2>3. CASE Answer(t, "insert", "error") /\ UNCHANGED <<instance, deleted>>
    <3>1. RowsTyped' /\ Owned' = Owned
      BY <2>1, <2>3, RowsStay DEF database
    <3> QED BY <1>3, <1>13, <1>16, <2>1, <2>3, <3>1
  <2> QED BY <1>19, <2>2, <2>3 DEF PostInsert
<1>20. CASE PostComplete(t)
  <2>1. UNCHANGED <<instance, deleted, apiKey>> /\ Answer(t, "complete", "success")
    BY <1>20 DEF PostComplete
  <2>2. RowsTyped' /\ Owned' = Owned /\ Owned
    BY <1>1, <1>13, <1>14, <2>1 DEF RowsTyped, Owned
  <2> QED BY <1>3, <1>13, <1>16, <2>1, <2>2
<1>21. CASE PostFails(t)
  <2>1. CASE UNCHANGED database /\ \E from, status : Answer(t, from, status)
    BY <1>3, <1>13, <1>16, <2>1, RowsStay
  <2>2. CASE UNCHANGED database /\ Proceed(t, "create", "insert")
    BY <1>3, <1>12, <1>16, <2>2, RowsStay
  <2>3. CASE /\ Answer(t, "insert", "error")
             /\ Inserts \/ UNCHANGED <<instance, deleted>>
             /\ UNCHANGED <<apiKey, progress>>
    <3>1. RowsTyped' /\ (Owned => Owned')
      BY <1>15, <2>3, RowsStay DEF database
    <3> QED BY <1>3, <1>13, <1>16, <2>3, <3>1
  <2>4. CASE /\ Answer(t, "configure", "error") /\ instance' = WithStatus("error")
             /\ progress' = Begun /\ UNCHANGED <<deleted, apiKey>>
    <3>1. RowsTyped' /\ Owned' = Owned
      BY <1>1, <2>4, UpdateKeepsRow DEF Statuses
    <3> QED BY <1>3, <1>13, <1>16, <2>4, <3>1 DEF Begun
  <2>5. CASE /\ Answer(t, "complete", "error") /\ progress' = "completed"
             /\ UNCHANGED <<instance, deleted, apiKey>>
    <3>1. RowsTyped' /\ Owned' = Owned /\ Owned
      BY <1>1, <1>13, <1>14, <2>5 DEF RowsTyped, Owned
    <3> QED BY <1>3, <1>13, <1>16, <2>5, <3>1
  <2> QED BY <1>21, <2>1, <2>2, <2>3, <2>4, <2>5, Zenon DEF PostFails
<1> QED BY <1>7, <1>8, <1>9, <1>10, <1>11, <1>17, <1>18, <1>19, <1>20, <1>21
        DEF WizardStep

\* What PostConfigure makes of the row.
LEMMA ConfiguredRow ==
    ASSUME RowsTyped, NEW t \in WizardTabs, PostConfigure(t)
    PROVE  RowsTyped' /\ (instance' = None <=> instance = None) /\ Owned' = Owned
<1>1. apiKey' \in BOOLEAN /\ UNCHANGED deleted
  BY DEF PostConfigure
<1>2. CASE post[t].body.key /\ instance # None
  <2>1. instance' = [status |-> "stopped", llm |-> "anthropic_byok"]
    BY <1>2 DEF PostConfigure
  <2>2. instance' \in Instances
    BY <2>1 DEF Instances, Statuses, Llms
  <2> QED BY <1>1, <1>2, <2>2, InstanceIsSome DEF RowsTyped, Owned
<1>3. CASE ~(post[t].body.key /\ instance # None)
  <2>1. instance' = WithStatus("stopped") /\ "stopped" \in Statuses
    BY <1>3 DEF PostConfigure, Statuses
  <2>2. instance' \in Instances \cup {None} /\ (instance' = None <=> instance = None)
    BY <2>1, StatusSet, InstanceIsSome DEF WithStatus, RowsTyped
  <2> QED BY <1>1, <2>2 DEF RowsTyped, Owned
<1> QED BY <1>2, <1>3

LEMMA ConfigureKeeps ==
    ASSUME PlatformInv, NEW t \in WizardTabs, ConfiguresUnheard(t)
    PROVE  PlatformInv'
<1> USE DEF ConfiguresUnheard
<1>1. PostConfigure(t) /\ UNCHANGED put /\ progress' = Begun
  BY DEF PostConfigure
<1>2. RowsTyped' /\ Owned' = Owned
  BY <1>1, ConfiguredRow DEF PlatformInv
<1>3. /\ post[t].pc = "configure"
      /\ \/ post' = [post EXCEPT ![t].pc = "complete"]
         \/ post' = [post EXCEPT ![t] = [pc |-> "idle", body |-> NoPost.body]]
  BY <1>1 DEF PostConfigure, Proceed, Answer, NoPost
<1>4. Owned
  BY <1>3 DEF PlatformInv, PastCreation
<1>5. "complete" \in PostPcs /\ "idle" \in PostPcs
  BY DEF PostPcs
<1> QED BY <1>1, <1>2, <1>3, <1>4, <1>5, PostKept DEF Begun

-----------------------------------------------------------------------------
LEMMA PlatformNext == PlatformInv /\ [Next]_vars => PlatformInv'
<1> SUFFICES ASSUME PlatformInv, [Next]_vars PROVE PlatformInv'
  OBVIOUS
<1>1. CASE UNCHANGED vars
  BY <1>1, RowsStay, RowKept DEF vars, site, wizard, dash, PlatformInv
<1>2. CASE Next
  BY <1>2, SiteKeeps, ChecksKeep, DashKeeps, WizardKeeps, ConfigureKeeps, ContainerKeeps,
     OtherClientKeeps DEF Next
<1> QED BY <1>1, <1>2

\* The inductive invariant: a request past the creation found or made an
\* instance, and only a deletion takes it away.
THEOREM PlatformInductive == Spec => []PlatformInv
BY PlatformInit, PlatformNext, PTL DEF Spec

\* The middleware opens the dashboard by onboarding_progress; whoever it lets
\* in has the instance the dashboard is about, whichever of the modelled calls
\* failed on the way, unless DELETE /instances/me removed it.
THEOREM CompletedOwnsInstance == Spec => []CompletedHasInstance
<1>1. PlatformInv => CompletedHasInstance
  BY DEF PlatformInv
<1> QED BY <1>1, PlatformInductive, PTL

-----------------------------------------------------------------------------
(***************************************************************************)
(* Every variable keeps its type.  What PlatformInv knows of the two rows  *)
(* and of the requests is used in both states of the step.                 *)
(***************************************************************************)
Counted == logins \in 0..MaxLogins /\ faults \in 0..MaxFaults /\ puts \in 0..MaxPuts

SessionTyped ==
    /\ account \in {"none", "mailed", "confirmed"}
    /\ session \in BOOLEAN
    /\ progress \in {"none", "begun", "completed"}

Locations == [Tabs -> [path : Paths, at : At]]
Steps == 1..5
Forms == [step : Steps, key : BOOLEAN, skipApiKey : BOOLEAN, channelType : Channels \cup {None},
          tokens : [Channels -> Tokens], skipChannel : BOOLEAN,
          status : {"", "loading", "success", "error"}]
Decisions == [llm : Llms, channel : Channels \cup {None}]
Posts == [pc : PostPcs, body : Bodies]
Shown == [key : BOOLEAN, llm : Llms]

\* What TypeOK says beyond PlatformInv.
SiteTyped == Counted /\ SessionTyped /\ loc \in Locations
PagesTyped == data \in [WizardTabs -> Forms] /\ choice \in [WizardTabs -> Decisions]
DashTyped == shown \in [Tabs -> Shown] /\ restart \in Tabs \cup {None} /\ behind \subseteq Tabs
Typed == SiteTyped /\ PagesTyped /\ post \in [WizardTabs -> Posts] /\ DashTyped

LEMMA TypedIsTypeOK == PlatformInv /\ Typed => TypeOK
BY DEF PlatformInv, RowsTyped, Typed, SiteTyped, PagesTyped, DashTyped, Counted, SessionTyped,
       Locations, Steps, Forms, Decisions, Posts, PostPcs, Shown, TypeOK, SiteTypeOK, WizardTypeOK, DashTypeOK

LEMMA FaultCounts == ASSUME Counted, Fault PROVE faults' \in 0..MaxFaults
BY SiteBounds DEF Counted, Fault

LEMMA LogInCounts == ASSUME Counted, LogIn PROVE logins' \in 0..MaxLogins /\ session' \in BOOLEAN
BY SiteBounds DEF Counted, LogIn

LEMMA GotoTyped ==
    ASSUME loc \in Locations, NEW t \in Tabs, NEW path \in Paths, NEW at \in At, Goto(t, path, at)
    PROVE  loc' \in Locations
BY DEF Locations, Goto

LEMMA FiveSteps == Steps = {1, 2, 3, 4, 5}
BY DEF Steps

LEMMA FreshTyped == Fresh \in Forms /\ Undecided \in Decisions /\ NoPost \in Posts
<1>1. NoTokens \in [Channels -> Tokens]
  BY DEF NoTokens, Tokens
<1>2. Fresh \in Forms
  BY <1>1, FiveSteps DEF Fresh, Forms
<1>3. [key |-> FALSE, tokens |-> NoTokens] \in Bodies
  BY <1>1 DEF Bodies
<1>4. NoPost \in Posts
  BY <1>3 DEF NoPost, Posts, PostPcs
<1> QED BY <1>2, <1>4 DEF Undecided, Decisions, Llms

LEMMA TypedInit == Init => Typed
<1> SUFFICES ASSUME Init PROVE Typed
  OBVIOUS
<1> USE DEF Init, SiteInit, WizardInit, DashInit
<1>1. Counted
  BY SiteBounds, PutsBound DEF Counted
<1>2. SessionTyped
  BY DEF SessionTyped
<1>3. loc \in Locations
  BY DEF Locations, Paths, At
<1>4. PagesTyped
  BY FreshTyped DEF PagesTyped
<1>5. post \in [WizardTabs -> Posts]
  BY FreshTyped
<1>6. DashTyped
  BY DEF DashTyped, Shown, Defaults, Llms
<1> QED BY <1>1, <1>2, <1>3, <1>4, <1>5, <1>6 DEF Typed, SiteTyped

\* What a tab does by leaving its page.
LEMMA LeavingTyped ==
    ASSUME Typed, NEW t \in Tabs
    PROVE  /\ LeaveWizard(t) => PagesTyped' /\ UNCHANGED post
           /\ LeaveSettings(t) => DashTyped' /\ UNCHANGED puts
<1>1. ASSUME LeaveWizard(t) PROVE PagesTyped' /\ UNCHANGED post
  BY <1>1, FreshTyped DEF LeaveWizard, Typed, PagesTyped
<1>2. ASSUME LeaveSettings(t) PROVE DashTyped' /\ UNCHANGED puts
  <2>1. Defaults \in Shown
    BY DEF Defaults, Shown, Llms
  <2> QED BY <1>2, <2>1 DEF LeaveSettings, Typed, DashTyped
<1> QED BY <1>1, <1>2

LEMMA SiteStepTyped ==
    ASSUME Typed, NEW t \in Tabs, SiteStep(t), UNCHANGED puts
    PROVE  SiteTyped'
<1> USE DEF Typed, SiteTyped
<1>1. loc[t].path \in Paths /\ {"requested", "loading", "reading", "shown", "empty", "failed"} = At
  BY DEF Locations, At
<1>2. {"login", "dashboard", "onboarding", "home"} \subseteq Paths
  BY DEF Paths, AuthPaths, DashboardPaths
<1>3. ASSUME UNCHANGED <<account, session, database>> PROVE SessionTyped'
  BY <1>3 DEF SessionTyped, database
<1>4. ASSUME UNCHANGED <<logins, faults>> PROVE Counted'
  BY <1>4 DEF Counted
<1>5. ASSUME UNCHANGED logins, Fault PROVE Counted'
  BY <1>5, FaultCounts DEF Counted
<1>6. CASE \E path \in Paths : Request(t, path)
  <2>1. loc' \in Locations
    BY <1>1, <1>6, GotoTyped DEF Request
  <2> QED BY <1>3, <1>4, <1>6, <2>1 DEF Request
<1>7. CASE Middleware(t)
  <2>1. \E path \in Paths, at \in At : Goto(t, path, at)
    BY <1>1, <1>2, <1>7 DEF Middleware, Arrives
  <2>2. loc' \in Locations
    BY <2>1, GotoTyped
  <2> QED BY <1>3, <1>4, <1>7, <2>2 DEF Middleware
<1>8. CASE MiddlewareFails(t)
  <2>1. loc' \in Locations
    BY <1>1, <1>2, <1>8, GotoTyped DEF MiddlewareFails
  <2> QED BY <1>3, <1>5, <1>8, <2>1 DEF MiddlewareFails
<1>9. CASE HandleEmailLogin(t)
  <2>1. loc' \in Locations
    BY <1>1, <1>2, <1>9, GotoTyped DEF HandleEmailLogin
  <2>2. Counted' /\ SessionTyped'
    BY <1>9, LogInCounts DEF HandleEmailLogin, Counted, SessionTyped, database
  <2> QED BY <2>1, <2>2
<1>10. CASE HandleEmailSignup(t)
  BY <1>4, <1>10 DEF HandleEmailSignup, SessionTyped, database
<1>11. CASE Callback(t)
  <2>1. loc' \in Locations
    BY <1>1, <1>2, <1>11, GotoTyped DEF Callback
  <2>2. Counted' /\ SessionTyped'
    BY <1>11, LogInCounts DEF Callback, Counted, SessionTyped, database
  <2> QED BY <2>1, <2>2
<1>12. CASE CallbackFails(t)
  <2>1. loc' \in Locations
    BY <1>1, <1>2, <1>12, GotoTyped DEF CallbackFails
  <2> QED BY <1>3, <1>5, <1>12, <2>1 DEF CallbackFails
<1>13. CASE HandleLogout(t)
  <2>1. loc' \in Locations
    BY <1>1, <1>2, <1>13, GotoTyped DEF HandleLogout
  <2> QED BY <1>4, <1>13, <2>1 DEF HandleLogout, SessionTyped, database
<1> QED BY <1>6, <1>7, <1>8, <1>9, <1>10, <1>11, <1>12, <1>13 DEF SiteStep

\* A step that takes the tab nowhere but to one of the pages.
LEMMA MovesTyped ==
    ASSUME Typed, NEW t \in Tabs, NEW path \in Paths, NEW at \in At,
           Goto(t, path, at) \/ UNCHANGED loc,
           UNCHANGED <<account, session, progress, logins, puts>>,
           Fault \/ UNCHANGED faults
    PROVE  SiteTyped'
<1>1. loc' \in Locations
  BY GotoTyped DEF Typed, SiteTyped
<1>2. Counted'
  BY FaultCounts DEF Typed, SiteTyped, Counted
<1>3. SessionTyped'
  BY DEF Typed, SiteTyped, SessionTyped
<1> QED BY <1>1, <1>2, <1>3 DEF SiteTyped

LEMMA ChecksTyped ==
    ASSUME Typed, NEW t \in Tabs, CheckStatus(t) \/ CheckStatusFails(t), UNCHANGED dash
    PROVE  Typed'
<1>1. {"dashboard", "onboarding"} \subseteq Paths /\ {"requested", "shown"} \subseteq At
  BY DEF Paths, DashboardPaths, At
<1>2. \E path \in Paths, at \in At : Goto(t, path, at)
  BY <1>1 DEF CheckStatus, CheckStatusFails
<1>3. /\ UNCHANGED <<account, session, progress, logins>> /\ (Fault \/ UNCHANGED faults)
      /\ UNCHANGED <<data, choice, post, shown, restart, behind, puts>>
  BY DEF CheckStatus, CheckStatusFails, database, wizard, dash
<1>4. SiteTyped'
  BY <1>2, <1>3, MovesTyped
<1> QED BY <1>3, <1>4 DEF Typed, PagesTyped, DashTyped

LEMMA ShowsTyped == ASSUME NEW s \in Shown, NEW k \in Kinds PROVE Shows(k, s) \in Shown
<1>1. (k = "saveKey" \/ (s.key /\ k # "removeKey")) \in BOOLEAN
  OBVIOUS
<1>2. (IF k \in {"saveKey", "toByok"} THEN "anthropic_byok"
       ELSE IF k = "profile" THEN s.llm ELSE "gemma_hosted") \in Llms
  BY DEF Shown, Llms
<1> QED BY <1>1, <1>2 DEF Shows, Shown

LEMMA DashStepTyped ==
    ASSUME PlatformInv, Typed, NEW t \in Tabs, DashStep(t), UNCHANGED wizard
    PROVE  Typed'
<1>1. PagesTyped' /\ post' \in [WizardTabs -> Posts]
  BY DEF wizard, Typed, PagesTyped
<1>2. {"dashboard", "settings"} \subseteq Paths /\ {"reading", "shown", "empty", "failed"} \subseteq At
  BY DEF Paths, DashboardPaths, At
<1>3. DashTyped /\ DashTyped = (shown \in [Tabs -> Shown] /\ restart \in Tabs \cup {None}
                                  /\ behind \subseteq Tabs)
  BY DEF Typed, DashTyped
<1>4. ASSUME UNCHANGED <<shown, restart, behind>> PROVE DashTyped'
  BY <1>3, <1>4 DEF DashTyped
<1>5. ASSUME UNCHANGED <<shown, restart>>, behind' \subseteq Tabs PROVE DashTyped'
  BY <1>3, <1>5 DEF DashTyped
<1>6. ASSUME UNCHANGED <<shown, behind>>, restart' \in {restart, t, None} PROVE DashTyped'
  BY <1>3, <1>6 DEF DashTyped
<1>7. OnSettings \subseteq Tabs
  BY DEF OnSettings
<1>8. CASE FetchInstance(t) \/ FetchInstanceFails(t)
  <2>1. \E at \in At : Goto(t, "dashboard", at)
    BY <1>2, <1>8 DEF FetchInstance, FetchInstanceFails, Fetched
  <2>2. /\ UNCHANGED <<account, session, progress, logins, puts, shown, restart, behind>>
        /\ Fault \/ UNCHANGED faults
    BY <1>8 DEF FetchInstance, FetchInstanceFails, database, dash
  <2> QED BY <1>1, <1>2, <1>4, <2>1, <2>2, MovesTyped DEF Typed
<1>9. CASE HandleRestart(t) \/ RefuseRestart(t) \/ Restarted(t) \/ RestartFails(t)
  <2>1. (\E at \in At : Goto(t, "dashboard", at)) \/ UNCHANGED loc
    BY <1>2, <1>9 DEF HandleRestart, RefuseRestart, Restarted, RestartFails, Fetched
  <2>2. /\ UNCHANGED <<account, session, progress, logins, puts, shown, behind>>
        /\ Fault \/ UNCHANGED faults
        /\ restart' \in {restart, t, None}
    BY <1>9 DEF HandleRestart, RefuseRestart, Restarted, RestartFails, database, dash
  <2> QED BY <1>1, <1>2, <1>6, <2>1, <2>2, MovesTyped DEF Typed
<1>10. CASE ReadRow(t) \/ LoadConfig(t) \/ RefuseLoad(t) \/ LoadConfigFails(t)
  <2>1. SiteTyped'
    <3>1. Goto(t, "settings", "reading") \/ Goto(t, "settings", "shown")
      BY <1>10 DEF ReadRow, LoadConfig, RefuseLoad, LoadConfigFails
    <3>2. /\ UNCHANGED <<account, session, progress, logins, puts>>
          /\ Fault \/ UNCHANGED faults
      BY <1>10 DEF ReadRow, LoadConfig, RefuseLoad, LoadConfigFails, database
    <3> QED BY <1>2, <3>1, <3>2, MovesTyped
  <2>2. behind' \subseteq Tabs /\ UNCHANGED restart
    BY <1>3, <1>10 DEF ReadRow, LoadConfig, RefuseLoad, LoadConfigFails
  <2>3. shown' \in [Tabs -> Shown]
    <3>1. ReadRow(t) => instance.llm \in Llms
      BY DEF ReadRow, PlatformInv, RowsTyped, Instances
    <3>2. apiKey \in BOOLEAN
      BY DEF PlatformInv, RowsTyped
    <3>3. CASE ReadRow(t)
      BY <1>3, <3>1, <3>3 DEF ReadRow, Shown
    <3>4. CASE LoadConfig(t)
      BY <1>3, <3>2, <3>4 DEF LoadConfig, Shown
    <3>5. CASE RefuseLoad(t) \/ LoadConfigFails(t)
      <4>1. Defaults \in Shown
        BY DEF Defaults, Shown, Llms
      <4>2. UNCHANGED shown \/ shown' = [shown EXCEPT ![t] = Defaults]
        BY <3>5 DEF RefuseLoad, LoadConfigFails
      <4> QED BY <1>3, <4>1, <4>2
    <3> QED BY <1>10, <3>3, <3>4, <3>5
  <2> QED BY <1>1, <2>1, <2>2, <2>3 DEF Typed, DashTyped
<1>12. CASE SubmitConfig(t)
  <2>1. Counted'
    BY <1>12, PutsBound DEF SubmitConfig, site, Typed, SiteTyped, Counted
  <2>2. SessionTyped' /\ loc' \in Locations
    BY <1>12 DEF SubmitConfig, site, database, Typed, SiteTyped, SessionTyped
  <2>3. UNCHANGED <<shown, restart, behind>>
    BY <1>12 DEF SubmitConfig
  <2> QED BY <1>1, <1>4, <2>1, <2>2, <2>3 DEF Typed, SiteTyped
<1>13. CASE UpdateConfig(t)
  <2>1. SiteTyped'
    BY <1>2, <1>13, MovesTyped DEF UpdateConfig
  <2>2. behind' \subseteq Tabs /\ UNCHANGED <<shown, restart>>
    BY <1>3, <1>7, <1>13 DEF UpdateConfig
  <2> QED BY <1>1, <1>5, <2>1, <2>2 DEF Typed
<1>14. CASE RefuseConfig(t)
  <2>1. SiteTyped'
    BY <1>2, <1>14, MovesTyped DEF RefuseConfig, site, database
  <2> QED BY <1>1, <1>4, <1>14, <2>1 DEF Typed, RefuseConfig
<1>15. CASE UpdateConfigFails(t)
  <2>1. SiteTyped'
    BY <1>2, <1>15, MovesTyped DEF UpdateConfigFails, database
  <2>2. behind' \subseteq Tabs /\ UNCHANGED <<shown, restart>>
    BY <1>3, <1>15 DEF UpdateConfigFails
  <2> QED BY <1>1, <1>5, <2>1, <2>2 DEF Typed
<1>16. CASE ConfigAnswered(t)
  <2>1. SiteTyped'
    BY <1>2, <1>16, MovesTyped DEF ConfigAnswered, site, database
  <2>2. Shows(put[t].kind, shown[t]) \in Shown
    BY <1>3, ShowsTyped DEF PlatformInv
  <2>3. DashTyped'
    BY <1>3, <1>16, <2>2 DEF ConfigAnswered, DashTyped
  <2> QED BY <1>1, <2>1, <2>3 DEF Typed
<1> QED BY <1>8, <1>9, <1>10, <1>12, <1>13, <1>14, <1>15, <1>16 DEF DashStep

-----------------------------------------------------------------------------
(* The onboarding                                                          *)

LEMMA BodyTyped == ASSUME NEW d \in Forms PROVE Body(d) \in Bodies
<1>1. (~d.skipApiKey /\ d.key) \in BOOLEAN
  OBVIOUS
<1>2. [c \in Channels |-> IF d.channelType = c /\ ~d.skipChannel THEN d.tokens[c] ELSE ""]
        \in [Channels -> Tokens]
  BY DEF Forms, Tokens
<1> QED BY <1>1, <1>2 DEF Body, Bodies

\* A step of the pages that sends nothing, and one that sends the request.
LEMMA BecomesTyped ==
    ASSUME Typed, NEW t \in WizardTabs, NEW d \in Forms, NEW what \in Decisions, UNCHANGED dash,
           Becomes(t, d), Decide(t, what) \/ UNCHANGED choice
    PROVE  Typed'
BY DEF Typed, SiteTyped, SessionTyped, Counted, PagesTyped, DashTyped, Becomes, Decide, site,
       database, dash

LEMMA CompleteTyped ==
    ASSUME Typed, NEW t \in WizardTabs, NEW d \in Forms, NEW what \in Channels \cup {None},
           UNCHANGED dash, Complete(t, d, what)
    PROVE  Typed'
<1>1. [d EXCEPT !.step = 5, !.status = "loading"] \in Forms
  BY FiveSteps DEF Forms
<1>2. [choice[t] EXCEPT !.channel = what] \in Decisions
  BY DEF Typed, PagesTyped, Decisions
<1>3. PagesTyped'
  BY <1>1, <1>2 DEF Typed, PagesTyped, Complete, Decide
<1>4. [pc |-> "auth", body |-> Body(d)] \in Posts
  BY BodyTyped DEF Posts, PostPcs
<1>5. post' \in [WizardTabs -> Posts]
  BY <1>4 DEF Typed, Complete
<1>6. SiteTyped' /\ DashTyped'
  BY DEF Typed, SiteTyped, SessionTyped, Counted, DashTyped, Complete, site, database, dash
<1> QED BY <1>3, <1>5, <1>6 DEF Typed

\* A step of the request, which leaves the tabs where they are.
LEMMA PostTyped ==
    ASSUME Typed, NEW t \in WizardTabs, NEW pc \in PostPcs, NEW status \in {"success", "error"},
           \/ post' = [post EXCEPT ![t].pc = pc] /\ UNCHANGED <<data, choice>>
           \/ Answer(t, pc, status),
           UNCHANGED <<account, session, loc, logins, puts>>, Fault \/ UNCHANGED faults,
           progress' \in {progress, "begun", "completed"}
    PROVE  SiteTyped' /\ PagesTyped' /\ post' \in [WizardTabs -> Posts]
<1>1. [data[t] EXCEPT !.status = status] \in Forms
  BY DEF Typed, PagesTyped, Forms
<1>2. PagesTyped'
  BY <1>1 DEF Typed, PagesTyped, Answer
<1>3. [post[t] EXCEPT !.pc = pc] \in Posts
  BY DEF Typed, Posts
<1>4. post' \in [WizardTabs -> Posts]
  BY <1>3, FreshTyped DEF Typed, Answer
<1>5. Counted'
  BY FaultCounts DEF Typed, SiteTyped, Counted
<1>6. SiteTyped'
  BY <1>5 DEF Typed, SiteTyped, SessionTyped
<1> QED BY <1>2, <1>4, <1>6

LEMMA DashTypedKept == Typed /\ UNCHANGED <<shown, restart, behind>> => DashTyped'
BY DEF Typed, DashTyped

LEMMA WizardStepTyped ==
    ASSUME Typed, NEW t \in WizardTabs, WizardStep(t), UNCHANGED dash
    PROVE  Typed'
<1>1. data[t] \in Forms /\ choice[t] \in Decisions
  BY DEF Typed, PagesTyped
<1> DEFINE d == data[t]
           c == d.channelType
<1>2. CASE Step1ApiKey(t)
  <2>1. /\ [d EXCEPT !.step = 2, !.key = TRUE, !.skipApiKey = FALSE] \in Forms
        /\ [d EXCEPT !.step = 2, !.key = FALSE, !.skipApiKey = TRUE] \in Forms
    BY <1>1, FiveSteps DEF Forms
  <2>2. /\ [choice[t] EXCEPT !.llm = "anthropic_byok"] \in Decisions
        /\ [choice[t] EXCEPT !.llm = "gemma_hosted"] \in Decisions
    BY <1>1 DEF Decisions, Llms
  <2> QED BY <1>2, <2>1, <2>2, BecomesTyped DEF Step1ApiKey
<1>3. CASE Step2Agent(t)
  <2>1. PICK n \in {1, 3} : Becomes(t, [d EXCEPT !.step = n])
    BY <1>3 DEF Step2Agent
  <2>2. [d EXCEPT !.step = n] \in Forms
    BY <1>1, FiveSteps DEF Forms
  <2> QED BY <1>1, <1>3, <2>1, <2>2, BecomesTyped DEF Step2Agent
<1>4. CASE Step3ChannelSelect(t)
  <2>1. /\ \A ch \in Channels : [d EXCEPT !.channelType = ch, !.skipChannel = FALSE] \in Forms
        /\ [d EXCEPT !.step = 4] \in Forms
        /\ [d EXCEPT !.step = 2] \in Forms
        /\ [d EXCEPT !.channelType = None, !.skipChannel = TRUE] \in Forms
    BY <1>1, FiveSteps DEF Forms
  <2> QED BY <1>1, <1>4, <2>1, BecomesTyped, CompleteTyped DEF Step3ChannelSelect
<1>5. CASE Step4ChannelSetup(t)
  <2>1. c \in Channels \cup {None}
    BY <1>1, FiveSteps DEF Forms
  <2>2. \A v \in Tokens : [d EXCEPT !.tokens[c] = v] \in Forms
    BY <1>1, <2>1 DEF Forms
  <2>3. /\ [d EXCEPT !.step = 3] \in Forms
        /\ [d EXCEPT !.skipChannel = FALSE] \in Forms
        /\ [d EXCEPT !.skipChannel = TRUE] \in Forms
        /\ [d EXCEPT !.skipChannel = TRUE, !.tokens[c] = ""] \in Forms
    BY <1>1, <2>1, FiveSteps DEF Forms, Tokens
  <2> QED BY <1>1, <1>5, <2>1, <2>2, <2>3, BecomesTyped, CompleteTyped DEF Step4ChannelSetup
<1>6. CASE Step5Complete(t)
  <2>1. CASE data' = [data EXCEPT ![t].status = "loading"] /\ UNCHANGED <<site, post, choice>>
    <3>1. [d EXCEPT !.status = "loading"] \in Forms
      BY <1>1, FiveSteps DEF Forms
    <3>2. data' = [data EXCEPT ![t] = [d EXCEPT !.status = "loading"]]
      BY <2>1
    <3> QED BY <1>1, <2>1, <3>1, <3>2, BecomesTyped DEF Becomes
  <2>2. CASE /\ Goto(t, "dashboard", "requested") /\ LeaveWizard(t)
             /\ UNCHANGED <<account, session, database, logins, faults>>
    <3>1. "dashboard" \in Paths /\ "requested" \in At /\ t \in Tabs
      BY WizardTabsAreTabs DEF Paths, DashboardPaths, At
    <3>2. UNCHANGED <<account, session, progress, logins, faults, puts, shown, restart, behind>>
      BY <2>2 DEF database, dash
    <3>3. SiteTyped'
      BY <2>2, <3>1, <3>2, MovesTyped
    <3>4. PagesTyped' /\ UNCHANGED post
      BY <2>2, <3>1, LeavingTyped
    <3> QED BY <3>2, <3>3, <3>4, DashTypedKept DEF Typed
  <2> QED BY <1>6, <2>1, <2>2 DEF Step5Complete
<1>7. CASE PostAuth(t) \/ PostCreate(t) \/ PostInsert(t) \/ PostComplete(t) \/ PostFails(t)
  <2>1. UNCHANGED <<account, session, loc, logins, puts, shown, restart, behind>>
    BY <1>7 DEF PostAuth, PostCreate, PostInsert, PostComplete, PostFails, Elsewhere, dash
  <2>2. Fault \/ UNCHANGED faults
    BY <1>7 DEF PostAuth, PostCreate, PostInsert, PostComplete, PostFails
  <2>3. progress' \in {progress, "begun", "completed"}
    BY <1>7 DEF PostAuth, PostCreate, PostInsert, PostComplete, PostFails, database, Begun
  <2>4. \E pc \in PostPcs, status \in {"success", "error"} :
           \/ post' = [post EXCEPT ![t].pc = pc] /\ UNCHANGED <<data, choice>>
           \/ Answer(t, pc, status)
    BY <1>7 DEF PostAuth, PostCreate, PostInsert, PostComplete, PostFails, Proceed, PostPcs
  <2> QED BY <2>1, <2>2, <2>3, <2>4, PostTyped, DashTypedKept DEF Typed
<1> QED BY <1>2, <1>3, <1>4, <1>5, <1>6, <1>7 DEF WizardStep

LEMMA ConfigureTyped ==
    ASSUME Typed, NEW t \in WizardTabs, ConfiguresUnheard(t)
    PROVE  Typed'
<1>1. /\ UNCHANGED <<account, session, loc, logins, puts, shown, restart>>
      /\ Fault \/ UNCHANGED faults
  BY DEF ConfiguresUnheard, PostConfigure, Elsewhere
<1>2. \E pc \in PostPcs, status \in {"success", "error"} :
         \/ post' = [post EXCEPT ![t].pc = pc] /\ UNCHANGED <<data, choice>>
         \/ Answer(t, pc, status)
  BY DEF ConfiguresUnheard, PostConfigure, Proceed, PostPcs
<1>3. progress' \in {progress, "begun"}
  BY DEF ConfiguresUnheard, PostConfigure, Begun
<1>4. SiteTyped' /\ PagesTyped' /\ post' \in [WizardTabs -> Posts]
  BY <1>1, <1>2, <1>3, PostTyped
<1>5. behind' \subseteq Tabs
  BY DEF ConfiguresUnheard, OnSettings, Typed, DashTyped
<1> QED BY <1>1, <1>4, <1>5 DEF Typed, DashTyped

LEMMA TypedNext == PlatformInv /\ Typed /\ [Next]_vars => Typed'
<1> SUFFICES ASSUME PlatformInv, Typed, [Next]_vars PROVE Typed'
  OBVIOUS
<1>1. CASE UNCHANGED vars
  BY <1>1 DEF vars, site, database, wizard, dash, Typed, SiteTyped, SessionTyped, Counted,
              PagesTyped, DashTyped
<1>2. ASSUME NEW t \in Tabs, SiteStep(t), LeaveWizard(t), LeaveSettings(t) PROVE Typed'
  <2>1. PagesTyped' /\ DashTyped' /\ UNCHANGED <<post, puts>>
    BY <1>2, LeavingTyped
  <2> QED BY <1>2, <2>1, SiteStepTyped DEF Typed
<1>3. ASSUME NEW s \in {"stopped", "running"}, ContainerTurns(s), UNCHANGED wizard PROVE Typed'
  BY <1>3 DEF ContainerTurns, wizard, dash, Typed, SiteTyped, SessionTyped, Counted,
              PagesTyped, DashTyped
<1>4. ASSUME CreateElsewhere \/ (DeleteInstance /\ UNCHANGED wizard) PROVE Typed'
  <2>1. /\ UNCHANGED <<account, session, loc, logins, puts, shown, restart, wizard>>
        /\ Fault /\ progress' \in {progress, "begun"}
    BY <1>4 DEF CreateElsewhere, DeleteInstance, Elsewhere, dash, Begun
  <2>2. behind' \subseteq Tabs
    BY <1>4 DEF CreateElsewhere, DeleteInstance, dash, OnSettings, Typed, DashTyped
  <2>3. Counted'
    BY <2>1, FaultCounts DEF Typed, SiteTyped, Counted
  <2>4. SiteTyped'
    BY <2>1, <2>3 DEF Typed, SiteTyped, SessionTyped
  <2> QED BY <2>1, <2>2, <2>4 DEF Typed, PagesTyped, DashTyped, wizard
<1> QED BY <1>1, <1>2, <1>3, <1>4, ChecksTyped, DashStepTyped, WizardStepTyped, ConfigureTyped
        DEF Next

\* Every variable of the pages, the rows and the requests keeps its type.
THEOREM PlatformTyped == Spec => []TypeOK
<1>1. PlatformInv /\ Typed /\ [Next]_vars => (PlatformInv /\ Typed)'
  BY PlatformNext, TypedNext
<1>2. Init => PlatformInv /\ Typed
  BY PlatformInit, TypedInit
<1> QED BY <1>1, <1>2, TypedIsTypeOK, PTL DEF Spec

-----------------------------------------------------------------------------
(***************************************************************************)
(* The request carries what was decided last.  The state of the steps      *)
(* agrees with the decision about the key all along; about the channel it  *)
(* agrees when the request is sent, after which no step can be shown again *)
(* but by leaving the page.                                                *)
(***************************************************************************)
Decided(t) ==
    /\ data[t].key = (choice[t].llm = "anthropic_byok")
    /\ data[t].skipApiKey = ~data[t].key

HasChannel(t) == data[t].step = 4 => data[t].channelType \in Channels

Asked(t) ==
    [key |-> choice[t].llm = "anthropic_byok",
     tokens |-> [c \in Channels |-> IF c = choice[t].channel THEN "good" ELSE ""]]

Carried(t) == data[t].step = 5 /\ post[t].pc # "idle" => post[t].body = Asked(t)

ChoicesOf(t) == Decided(t) /\ HasChannel(t) /\ Carried(t)
ChoicesKept == \A t \in WizardTabs : ChoicesOf(t)

LEMMA FreshDecided ==
    /\ Fresh.key = (Undecided.llm = "anthropic_byok") /\ Fresh.skipApiKey = ~Fresh.key
    /\ Fresh.step = 1
<1>1. Fresh.key = FALSE /\ Fresh.skipApiKey = TRUE
  BY DEF Fresh
<1>2. (Undecided.llm = "anthropic_byok") = FALSE
  BY DEF Undecided
<1>3. Fresh.step = 1
  BY DEF Fresh
<1> QED BY <1>1, <1>2, <1>3

LEMMA ChoicesInit == Init => ChoicesKept
<1> SUFFICES ASSUME Init, NEW t \in WizardTabs PROVE ChoicesOf(t)
  BY DEF ChoicesKept
<1>1. data[t] = Fresh /\ choice[t] = Undecided /\ post[t] = NoPost
  BY DEF Init, WizardInit
<1>2. Decided(t)
  BY <1>1, FreshDecided DEF Decided
<1> QED BY <1>1, <1>2, FreshDecided DEF ChoicesOf, HasChannel, Carried

\* What one tab does with its own page and request leaves the others alone.
LEMMA OthersChoose ==
    ASSUME ChoicesKept, NEW t,
           \A u \in WizardTabs \ {t} :
              data'[u] = data[u] /\ choice'[u] = choice[u] /\ post'[u] = post[u],
           t \in WizardTabs => ChoicesOf(t)'
    PROVE  ChoicesKept'
<1> SUFFICES ASSUME NEW u \in WizardTabs, u # t PROVE ChoicesOf(u)'
  BY DEF ChoicesKept
<1>1. data'[u] = data[u] /\ choice'[u] = choice[u] /\ post'[u] = post[u]
  OBVIOUS
<1>2. Asked(u)' = Asked(u)
  BY <1>1 DEF Asked
<1>3. ChoicesOf(u)
  BY DEF ChoicesKept
<1> QED BY <1>1, <1>2, <1>3 DEF ChoicesOf, Decided, HasChannel, Carried

LEMMA UnchosenKept == ASSUME ChoicesKept, UNCHANGED wizard PROVE ChoicesKept'
<1>1. \A u \in WizardTabs : data'[u] = data[u] /\ choice'[u] = choice[u] /\ post'[u] = post[u]
  BY DEF wizard
<1>2. PICK t : t \notin WizardTabs
  <2>1. None \notin WizardTabs
    BY NoneIsNone, WizardTabsAreTabs
  <2> QED BY <2>1
<1> QED BY <1>1, <1>2, OthersChoose

LEMMA LeavingForgets == ASSUME ChoicesKept, NEW t, LeaveWizard(t) PROVE ChoicesKept'
<1>1. \A u \in WizardTabs \ {t} :
         data'[u] = data[u] /\ choice'[u] = choice[u] /\ post'[u] = post[u]
  BY DEF LeaveWizard
<1>2. ASSUME t \in WizardTabs PROVE ChoicesOf(t)'
  <2>1. data'[t] = Fresh /\ choice'[t] = Undecided
    BY <1>2 DEF LeaveWizard
  <2>2. Decided(t)'
    BY <2>1, FreshDecided DEF Decided
  <2> QED BY <2>1, <2>2, FreshDecided DEF ChoicesOf, HasChannel, Carried
<1> QED BY <1>1, <1>2, OthersChoose

\* A step of the pages: nothing is under way once it leads to the fifth.
LEMMA PageChooses ==
    ASSUME Typed, ChoicesKept, NEW t \in WizardTabs, NEW d, NEW what \in Decisions,
           Becomes(t, d), choice' = [choice EXCEPT ![t] = what],
           d.key = (what.llm = "anthropic_byok"), d.skipApiKey = ~d.key,
           d.step = 4 => d.channelType \in Channels,
           d.step = 5 => d.step = data[t].step /\ what = choice[t]
    PROVE  ChoicesKept'
<1>1. data' = [data EXCEPT ![t] = d] /\ post' = post
  BY DEF Becomes
<1>2. \A u \in WizardTabs \ {t} :
         data'[u] = data[u] /\ choice'[u] = choice[u] /\ post'[u] = post[u]
  BY <1>1
<1>3. data'[t] = d /\ choice'[t] = what
  BY <1>1 DEF Typed, PagesTyped
<1>4. Decided(t)' /\ HasChannel(t)'
  BY <1>3 DEF Decided, HasChannel
<1>5. Carried(t)'
  <2>1. CASE d.step # 5
    BY <1>3, <2>1 DEF Carried
  <2>2. CASE d.step = data[t].step /\ what = choice[t]
    <3>1. Carried(t)
      BY DEF ChoicesKept, ChoicesOf
    <3>2. Asked(t)' = Asked(t)
      BY <1>3, <2>2 DEF Asked
    <3> QED BY <1>1, <1>3, <2>2, <3>1, <3>2 DEF Carried
  <2> QED BY <2>1, <2>2
<1> QED BY <1>2, <1>4, <1>5, OthersChoose DEF ChoicesOf

\* The request: of the page's tokens it takes the one of the channel decided.
LEMMA CompleteChooses ==
    ASSUME Typed, ChoicesKept, NEW t \in WizardTabs, NEW d \in Forms,
           NEW what \in Channels \cup {None}, Complete(t, d, what),
           d.key = data[t].key, d.skipApiKey = data[t].skipApiKey,
           \/ d.skipChannel /\ what = None
           \/ ~d.skipChannel /\ d.channelType = what /\ what \in Channels /\ d.tokens[what] = "good"
    PROVE  ChoicesKept'
<1>1. \A u \in WizardTabs \ {t} :
         data'[u] = data[u] /\ choice'[u] = choice[u] /\ post'[u] = post[u]
  BY DEF Complete, Decide
<1>2. /\ data'[t] = [d EXCEPT !.step = 5, !.status = "loading"]
      /\ choice'[t] = [choice[t] EXCEPT !.channel = what]
      /\ post'[t].body = Body(d)
  BY DEF Complete, Decide, Typed, PagesTyped
<1>3. choice'[t].llm = choice[t].llm /\ choice'[t].channel = what
  BY <1>2 DEF Typed, PagesTyped, Decisions
<1>4. data'[t].key = d.key /\ data'[t].skipApiKey = d.skipApiKey /\ data'[t].step = 5
  BY <1>2 DEF Forms
<1>5. d.key = (choice[t].llm = "anthropic_byok") /\ d.skipApiKey = ~d.key
  BY DEF ChoicesKept, ChoicesOf, Decided
<1>6. Decided(t)' /\ HasChannel(t)'
  BY <1>3, <1>4, <1>5 DEF Decided, HasChannel
<1>7. (~d.skipApiKey /\ d.key) = (choice'[t].llm = "anthropic_byok")
  BY <1>3, <1>5
<1>8. \A c \in Channels :
         (IF d.channelType = c /\ ~d.skipChannel THEN d.tokens[c] ELSE "")
       = (IF c = choice'[t].channel THEN "good" ELSE "")
  BY <1>3, NoChannelIsNone
<1>9. Body(d) = Asked(t)'
  BY <1>7, <1>8 DEF Body, Asked
<1>10. Carried(t)'
  BY <1>2, <1>9 DEF Carried
<1> QED BY <1>1, <1>6, <1>10, OthersChoose DEF ChoicesOf

\* The request goes its way; the page shows what became of it.
LEMMA PostChooses ==
    ASSUME Typed, ChoicesKept, NEW t \in WizardTabs, NEW pc \in PostPcs, NEW status,
           \/ post' = [post EXCEPT ![t].pc = pc] /\ UNCHANGED <<data, choice>> /\ post[t].pc # "idle"
           \/ Answer(t, pc, status)
    PROVE  ChoicesKept'
<1>1. \A u \in WizardTabs \ {t} :
         data'[u] = data[u] /\ choice'[u] = choice[u] /\ post'[u] = post[u]
  BY DEF Answer, Typed, PagesTyped
<1>2. choice'[t] = choice[t]
  BY DEF Answer
<1>3. /\ data'[t].key = data[t].key /\ data'[t].skipApiKey = data[t].skipApiKey
      /\ data'[t].step = data[t].step /\ data'[t].channelType = data[t].channelType
  BY ZenonT(40) DEF Answer, Typed, PagesTyped, Forms
<1>4. ChoicesOf(t)
  BY DEF ChoicesKept
<1>5. Decided(t)' /\ HasChannel(t)'
  BY <1>2, <1>3, <1>4 DEF ChoicesOf, Decided, HasChannel
<1>6. post[t] \in Posts
  BY DEF Typed
<1>7. post'[t].pc # "idle" => post[t].pc # "idle" /\ post'[t].body = post[t].body
  BY <1>6 DEF Answer, NoPost, Typed, Posts
<1>8. Asked(t)' = Asked(t)
  BY <1>2 DEF Asked
<1>9. Carried(t)'
  BY <1>3, <1>4, <1>7, <1>8 DEF ChoicesOf, Carried
<1> QED BY <1>1, <1>5, <1>9, OthersChoose DEF ChoicesOf

LEMMA WizardChooses ==
    ASSUME Typed, ChoicesKept, NEW t \in WizardTabs, WizardStep(t) \/ PostConfigure(t)
    PROVE  ChoicesKept'
<1>1. data[t] \in Forms /\ choice[t] \in Decisions /\ choice \in [WizardTabs -> Decisions]
  BY DEF Typed, PagesTyped
<1>2. Decided(t) /\ HasChannel(t)
  BY DEF ChoicesKept, ChoicesOf
<1> DEFINE d == data[t]
           c == d.channelType
<1>3. ASSUME UNCHANGED choice PROVE choice' = [choice EXCEPT ![t] = choice[t]]
  BY <1>1, <1>3
<1>4. d.key = (choice[t].llm = "anthropic_byok") /\ d.skipApiKey = ~d.key
  BY <1>2 DEF Decided
<1>5. CASE Step1ApiKey(t)
  <2>1. CASE /\ Becomes(t, [d EXCEPT !.step = 2, !.key = TRUE, !.skipApiKey = FALSE])
             /\ Decide(t, [choice[t] EXCEPT !.llm = "anthropic_byok"])
    <3> DEFINE e == [d EXCEPT !.step = 2, !.key = TRUE, !.skipApiKey = FALSE]
               what == [choice[t] EXCEPT !.llm = "anthropic_byok"]
    <3>1. e.step = 2 /\ e.key = TRUE /\ e.skipApiKey = FALSE
      BY <1>1 DEF Forms
    <3>2. what \in Decisions /\ what.llm = "anthropic_byok"
      BY <1>1 DEF Decisions, Llms
    <3>3. Becomes(t, e) /\ choice' = [choice EXCEPT ![t] = what]
      BY <2>1 DEF Decide
    <3> HIDE DEF e, what
    <3>4. e.key = (what.llm = "anthropic_byok") /\ e.skipApiKey = ~e.key
      BY <3>1, <3>2
    <3>5. e.step # 4 /\ e.step # 5
      BY <3>1
    <3> QED BY <3>2, <3>3, <3>4, <3>5, PageChooses, Zenon
  <2>2. CASE /\ Becomes(t, [d EXCEPT !.step = 2, !.key = FALSE, !.skipApiKey = TRUE])
             /\ Decide(t, [choice[t] EXCEPT !.llm = "gemma_hosted"])
    <3> DEFINE e == [d EXCEPT !.step = 2, !.key = FALSE, !.skipApiKey = TRUE]
               what == [choice[t] EXCEPT !.llm = "gemma_hosted"]
    <3>1. e.step = 2 /\ e.key = FALSE /\ e.skipApiKey = TRUE
      BY <1>1 DEF Forms
    <3>2. what \in Decisions /\ what.llm = "gemma_hosted"
      BY <1>1 DEF Decisions, Llms
    <3>3. Becomes(t, e) /\ choice' = [choice EXCEPT ![t] = what]
      BY <2>2 DEF Decide
    <3> HIDE DEF e, what
    <3>4. (what.llm = "anthropic_byok") = FALSE
      BY <3>2
    <3>5. e.key = (what.llm = "anthropic_byok") /\ e.skipApiKey = ~e.key
      BY <3>1, <3>4
    <3>6. e.step # 4 /\ e.step # 5
      BY <3>1
    <3> QED BY <3>2, <3>3, <3>5, <3>6, PageChooses, Zenon
  <2> QED BY <1>5, <2>1, <2>2 DEF Step1ApiKey
\* The other steps of the page leave the key alone.
<1>6. ASSUME NEW e, Becomes(t, e), UNCHANGED choice,
             e.key = d.key, e.skipApiKey = d.skipApiKey,
             e.step = 4 => e.channelType \in Channels, e.step = 5 => d.step = 5
      PROVE  ChoicesKept'
  <2>1. e.key = (choice[t].llm = "anthropic_byok") /\ e.skipApiKey = ~e.key
    BY <1>4, <1>6
  <2>2. e.step = 5 => e.step = d.step
    BY <1>6
  <2> HIDE DEF d
  <2> QED BY <1>1, <1>3, <1>6, <2>1, <2>2, PageChooses DEF d
<1>7. CASE Step2Agent(t)
  <2>1. PICK n \in {1, 3} : Becomes(t, [d EXCEPT !.step = n]) /\ UNCHANGED choice
    BY <1>7 DEF Step2Agent
  <2> DEFINE e == [d EXCEPT !.step = n]
  <2>2. e.key = d.key /\ e.skipApiKey = d.skipApiKey /\ e.step = n
    BY <1>1 DEF Forms
  <2>3. Becomes(t, e) /\ UNCHANGED choice
    BY <2>1
  <2> HIDE DEF e
  <2> QED BY <1>6, <2>1, <2>2, <2>3
<1>8. ASSUME NEW e \in Forms, NEW what \in Channels \cup {None}, Complete(t, e, what),
             e.key = d.key, e.skipApiKey = d.skipApiKey,
             \/ e.skipChannel /\ what = None
             \/ ~e.skipChannel /\ e.channelType = what /\ what \in Channels /\ e.tokens[what] = "good"
      PROVE  ChoicesKept'
  BY <1>8, CompleteChooses
<1>9. CASE Step3ChannelSelect(t)
  <2>1. d.step = 3
    BY <1>9 DEF Step3ChannelSelect, OnStep
  <2>2. ASSUME NEW ch \in Channels, UNCHANGED choice,
               Becomes(t, [d EXCEPT !.channelType = ch, !.skipChannel = FALSE])
        PROVE  ChoicesKept'
    <3> DEFINE e == [d EXCEPT !.channelType = ch, !.skipChannel = FALSE]
    <3>1. e.key = d.key /\ e.skipApiKey = d.skipApiKey /\ e.step = 3
      BY <1>1, <2>1 DEF Forms
    <3>2. Becomes(t, e) /\ UNCHANGED choice
      BY <2>2
    <3> HIDE DEF e
    <3> QED BY <1>6, <2>2, <3>1, <3>2
  <2>3. CASE c # None /\ Becomes(t, [d EXCEPT !.step = 4]) /\ UNCHANGED choice
    <3> DEFINE e == [d EXCEPT !.step = 4]
    <3>1. e.key = d.key /\ e.skipApiKey = d.skipApiKey /\ e.step = 4 /\ e.channelType \in Channels
      BY <1>1, <2>3 DEF Forms
    <3>2. Becomes(t, e) /\ UNCHANGED choice
      BY <2>3
    <3> HIDE DEF e
    <3> QED BY <1>6, <2>3, <3>1, <3>2
  <2>4. CASE Becomes(t, [d EXCEPT !.step = 2]) /\ UNCHANGED choice
    <3> DEFINE e == [d EXCEPT !.step = 2]
    <3>1. e.key = d.key /\ e.skipApiKey = d.skipApiKey /\ e.step = 2
      BY <1>1 DEF Forms
    <3>2. Becomes(t, e) /\ UNCHANGED choice
      BY <2>4
    <3> HIDE DEF e
    <3> QED BY <1>6, <2>4, <3>1, <3>2
  <2>5. CASE Complete(t, [d EXCEPT !.channelType = None, !.skipChannel = TRUE], None)
    <3> DEFINE e == [d EXCEPT !.channelType = None, !.skipChannel = TRUE]
    <3>1. e \in Forms /\ e.key = d.key /\ e.skipApiKey = d.skipApiKey /\ e.skipChannel
      BY <1>1 DEF Forms
    <3>2. Complete(t, e, None)
      BY <2>5
    <3> HIDE DEF e
    <3> QED BY <1>8, <2>5, <3>1, <3>2
  <2> QED BY <1>9, <2>2, <2>3, <2>4, <2>5 DEF Step3ChannelSelect
<1>10. CASE Step4ChannelSetup(t)
  <2>1. d.step = 4 /\ c \in Channels
    BY <1>2, <1>10 DEF Step4ChannelSetup, OnStep, HasChannel
  <2>2. ASSUME NEW v \in Tokens, Becomes(t, [d EXCEPT !.tokens[c] = v]), UNCHANGED choice
        PROVE  ChoicesKept'
    <3> DEFINE e == [d EXCEPT !.tokens[c] = v]
    <3>1. e.key = d.key /\ e.skipApiKey = d.skipApiKey /\ e.step = 4 /\ e.channelType = c
      BY <1>1, <2>1 DEF Forms
    <3>2. Becomes(t, e) /\ UNCHANGED choice
      BY <2>2
    <3> HIDE DEF e
    <3> QED BY <1>6, <2>1, <2>2, <3>1, <3>2
  <2>3. CASE Becomes(t, [d EXCEPT !.step = 3]) /\ UNCHANGED choice
    <3> DEFINE e == [d EXCEPT !.step = 3]
    <3>1. e.key = d.key /\ e.skipApiKey = d.skipApiKey /\ e.step = 3
      BY <1>1 DEF Forms
    <3>2. Becomes(t, e) /\ UNCHANGED choice
      BY <2>3
    <3> HIDE DEF e
    <3> QED BY <1>6, <2>3, <3>1, <3>2
  <2>4. CASE d.tokens[c] = "good" /\ Complete(t, [d EXCEPT !.skipChannel = FALSE], c)
    <3> DEFINE e == [d EXCEPT !.skipChannel = FALSE]
    <3>1. /\ e \in Forms /\ e.key = d.key /\ e.skipApiKey = d.skipApiKey
          /\ ~e.skipChannel /\ e.channelType = c /\ e.tokens = d.tokens
      BY <1>1 DEF Forms
    <3>2. Complete(t, e, c)
      BY <2>4
    <3> HIDE DEF e
    <3> QED BY <1>8, <2>1, <2>4, <3>1, <3>2
  <2>5. CASE d.tokens[c] = "" /\ Complete(t, [d EXCEPT !.skipChannel = TRUE], None)
    <3> DEFINE e == [d EXCEPT !.skipChannel = TRUE]
    <3>1. e \in Forms /\ e.key = d.key /\ e.skipApiKey = d.skipApiKey /\ e.skipChannel
      BY <1>1 DEF Forms
    <3>2. Complete(t, e, None)
      BY <2>5
    <3> HIDE DEF e
    <3> QED BY <1>8, <2>5, <3>1, <3>2
  <2>6. CASE Complete(t, [d EXCEPT !.skipChannel = TRUE, !.tokens[c] = ""], None)
    <3> DEFINE e == [d EXCEPT !.skipChannel = TRUE, !.tokens[c] = ""]
    <3>1. e \in Forms /\ e.key = d.key /\ e.skipApiKey = d.skipApiKey /\ e.skipChannel
      BY <1>1, <2>1 DEF Forms, Tokens
    <3>2. Complete(t, e, None)
      BY <2>6
    <3> HIDE DEF e
    <3> QED BY <1>8, <2>6, <3>1, <3>2
  <2> QED BY <1>10, <2>2, <2>3, <2>4, <2>5, <2>6 DEF Step4ChannelSetup
<1>11. CASE Step5Complete(t)
  <2>1. CASE d.status = "error" /\ data' = [data EXCEPT ![t].status = "loading"]
             /\ UNCHANGED <<site, post, choice>>
    <3> DEFINE e == [d EXCEPT !.status = "loading"]
    <3>1. e.key = d.key /\ e.skipApiKey = d.skipApiKey /\ e.step = 5 /\ d.step = 5
      BY <1>1, <1>11 DEF Forms, Step5Complete, OnStep
    <3>2. Becomes(t, e) /\ UNCHANGED choice
      BY <2>1 DEF Becomes
    <3> HIDE DEF e
    <3> QED BY <1>6, <3>1, <3>2
  <2>2. CASE LeaveWizard(t)
    BY <2>2, LeavingForgets
  <2> QED BY <1>11, <2>1, <2>2 DEF Step5Complete
<1>12. CASE \/ PostAuth(t) \/ PostCreate(t) \/ PostInsert(t)
            \/ PostConfigure(t) \/ PostComplete(t) \/ PostFails(t)
  <2>1. \E pc \in PostPcs, status \in {"success", "error"} :
           \/ post' = [post EXCEPT ![t].pc = pc] /\ UNCHANGED <<data, choice>> /\ post[t].pc # "idle"
           \/ Answer(t, pc, status)
    BY <1>12
       DEF PostAuth, PostCreate, PostInsert, PostConfigure, PostComplete, PostFails, Proceed, PostPcs
  <2> QED BY <2>1, PostChooses
<1> QED BY <1>5, <1>7, <1>9, <1>10, <1>11, <1>12 DEF WizardStep

LEMMA ChoicesNext == Typed /\ ChoicesKept /\ [Next]_vars => ChoicesKept'
<1> SUFFICES ASSUME Typed, ChoicesKept, [Next]_vars PROVE ChoicesKept'
  OBVIOUS
<1>1. ASSUME NEW t \in Tabs, CheckStatus(t) \/ CheckStatusFails(t) PROVE UNCHANGED wizard
  BY <1>1 DEF CheckStatus, CheckStatusFails
<1>2. UNCHANGED vars => UNCHANGED wizard
  BY DEF vars
<1>3. CreateElsewhere => UNCHANGED wizard
  BY DEF CreateElsewhere
<1> QED BY <1>1, <1>2, <1>3, UnchosenKept, LeavingForgets, WizardChooses DEF Next, ConfiguresUnheard

\* However a user goes back and forth through the steps, in any number of
\* tabs, the request sent carries a key only with the user's own model, and
\* the token of the channel decided and no other.
THEOREM RequestMatchesChoices == Spec => []PostMatchesChoices
<1>1. /\ Init => PlatformInv /\ Typed /\ ChoicesKept
      /\ PlatformInv /\ Typed /\ ChoicesKept /\ [Next]_vars => (PlatformInv /\ Typed /\ ChoicesKept)'
  BY PlatformInit, TypedInit, ChoicesInit, PlatformNext, TypedNext, ChoicesNext
<1>2. ChoicesKept => PostMatchesChoices
  BY DEF ChoicesKept, ChoicesOf, Carried, Asked, PostMatchesChoices
<1> QED BY <1>1, <1>2, PTL DEF Spec

-----------------------------------------------------------------------------
(***************************************************************************)
(* What a settings page shows is what the server has, or will be once the  *)
(* answer has arrived; what one that loads has read of the row is what the *)
(* row still says.  A request waited for is one of a page still shown.     *)
(***************************************************************************)
AnswersAwaited ==
    \A t \in Tabs : put[t].pc \in {"sent", "answered"} => Is(t, "settings", "shown")

Agrees(t) ==
    /\ instance # None
    /\ IF loc[t].at = "reading" THEN shown[t].llm = instance.llm
       ELSE Has = IF put[t].pc = "answered" THEN Shows(put[t].kind, shown[t]) ELSE shown[t]

ServerShown == AnswersAwaited /\ \A t \in OnSettings \ behind : Agrees(t)

LEMMA ServerInit == Init => ServerShown
<1> SUFFICES ASSUME Init PROVE ServerShown
  OBVIOUS
<1>1. OnSettings = {}
  BY DEF Init, SiteInit, OnSettings
<1>2. \A t \in Tabs : put[t].pc = "idle"
  BY DEF Init, DashInit, NoPut
<1> QED BY <1>1, <1>2 DEF ServerShown, AnswersAwaited

\* Where a tab that goes somewhere is, and the others.
LEMMA GotoSettings ==
    ASSUME loc \in Locations, NEW t \in Tabs, NEW path, NEW at, Goto(t, path, at)
    PROVE  /\ \A u \in Tabs \ {t} : loc'[u] = loc[u]
           /\ loc'[t] = [path |-> path, at |-> at]
           /\ t \in OnSettings' <=> path = "settings" /\ at \in {"reading", "shown"}
<1>1. /\ \A u \in Tabs \ {t} : loc'[u] = loc[u]
      /\ loc'[t] = [path |-> path, at |-> at]
  BY DEF Locations, Goto
<1> QED BY <1>1 DEF OnSettings

\* No tab that is on the settings page, or comes there, moves.
SettingsStay == \A u \in OnSettings \cup OnSettings' : loc'[u] = loc[u]

LEMMA LocStays == UNCHANGED loc => SettingsStay
BY DEF SettingsStay

LEMMA GoesElsewhere ==
    ASSUME loc \in Locations, NEW t \in Tabs, NEW path \in Paths \ {"settings"}, NEW at,
           Goto(t, path, at), t \notin OnSettings
    PROVE  SettingsStay
BY GotoSettings DEF SettingsStay, OnSettings

\* A row whose status alone changes says the same of key and model.
LEMMA StatusSaysNothing ==
    ASSUME RowsTyped, NEW st \in Statuses, instance' = WithStatus(st), UNCHANGED apiKey
    PROVE  instance # None => instance' # None /\ Has' = Has
<1> SUFFICES ASSUME instance # None PROVE instance' # None /\ Has' = Has
  OBVIOUS
<1>1. instance \in Instances /\ instance' = [instance EXCEPT !.status = st]
  BY DEF RowsTyped, WithStatus
<1>2. instance' \in Instances
  BY <1>1, StatusSet
<1>3. instance'.llm = instance.llm
  BY <1>1 DEF Instances
<1> QED BY <1>2, <1>3, InstanceIsSome DEF Has

\* A step that has nothing to do with the settings.
LEMMA ServerKept ==
    ASSUME ServerShown, UNCHANGED <<put, shown, behind>>, SettingsStay,
           instance # None => instance' # None /\ Has' = Has
    PROVE  ServerShown'
<1>1. OnSettings' = OnSettings
  BY DEF SettingsStay, OnSettings
<1>2. AnswersAwaited'
  <2> SUFFICES ASSUME NEW t \in Tabs, put[t].pc \in {"sent", "answered"}
               PROVE  Is(t, "settings", "shown")'
    BY DEF AnswersAwaited
  <2>1. Is(t, "settings", "shown")
    BY DEF ServerShown, AnswersAwaited
  <2>2. t \in OnSettings
    BY <2>1 DEF Is, OnSettings
  <2> QED BY <2>1, <2>2 DEF Is, SettingsStay
<1>3. ASSUME NEW t \in OnSettings \ behind PROVE Agrees(t)'
  <2>1. Agrees(t) /\ t \in Tabs /\ loc'[t] = loc[t]
    BY DEF ServerShown, OnSettings, SettingsStay
  <2>2. instance' # None /\ Has' = Has
    BY <2>1 DEF Agrees
  <2>3. instance'.llm = instance.llm
    BY <2>2 DEF Has
  <2> QED BY <2>1, <2>2, <2>3 DEF Agrees
<1> QED BY <1>1, <1>2, <1>3 DEF ServerShown

\* A step of one tab about the settings; the other pages find the server as it
\* was, or are behind.
LEMMA ServerOfOne ==
    ASSUME ServerShown, NEW t \in Tabs,
           \A u \in Tabs \ {t} :
              put'[u] = put[u] /\ shown'[u] = shown[u] /\ loc'[u] = loc[u],
           behind \subseteq behind' \cup {t},
           UNCHANGED <<instance, apiKey>> \/ OnSettings \ {t} \subseteq behind',
           put'[t].pc \in {"sent", "answered"} => Is(t, "settings", "shown")',
           t \in OnSettings' \ behind' => Agrees(t)'
    PROVE  ServerShown'
<1>1. OnSettings \subseteq Tabs /\ OnSettings' \subseteq Tabs
  BY DEF OnSettings
<1>2. AnswersAwaited'
  BY <1>1 DEF ServerShown, AnswersAwaited, Is
<1>3. ASSUME NEW u \in OnSettings' \ behind', u # t PROVE Agrees(u)'
  <2>1. u \in OnSettings \ behind /\ u \in Tabs
    BY <1>1, <1>3 DEF OnSettings
  <2>2. Agrees(u)
    BY <2>1 DEF ServerShown
  <2>3. UNCHANGED <<instance, apiKey>>
    BY <1>3, <2>1
  <2>4. Has' = Has
    BY <2>3 DEF Has
  <2>5. put'[u] = put[u] /\ shown'[u] = shown[u] /\ loc'[u] = loc[u]
    BY <1>3, <2>1
  <2> QED BY <2>2, <2>3, <2>4, <2>5 DEF Agrees
<1> QED BY <1>2, <1>3 DEF ServerShown

\* updateConfig and the handlers of the page reckon alike.
LEMMA UpdatedAsShown == ASSUME NEW s \in Shown, NEW k \in Kinds PROVE Updated(k, s) = Shows(k, s)
<1>1. PICK key \in BOOLEAN, llm \in Llms : s = [key |-> key, llm |-> llm]
  BY DEF Shown
<1>2. s.key = key /\ s.llm = llm
  BY <1>1
<1>3. \A a \in BOOLEAN, b \in Llms :
         /\ [s EXCEPT !.key = a, !.llm = b] = [key |-> a, llm |-> b]
         /\ [s EXCEPT !.llm = b] = [key |-> key, llm |-> b]
  <2> SUFFICES ASSUME NEW a \in BOOLEAN, NEW b \in Llms
               PROVE  /\ [s EXCEPT !.key = a, !.llm = b] = [key |-> a, llm |-> b]
                      /\ [s EXCEPT !.llm = b] = [key |-> key, llm |-> b]
    OBVIOUS
  <2>1. \A r \in Shown : r = [key |-> r.key, llm |-> r.llm]
    BY DEF Shown
  <2> DEFINE both == [s EXCEPT !.key = a, !.llm = b]
             one == [s EXCEPT !.llm = b]
  <2>2. both \in Shown /\ one \in Shown
    BY DEF Shown
  <2>3. both.key = a /\ both.llm = b
    BY DEF Shown
  <2>4. one.key = key /\ one.llm = b
    BY <1>2 DEF Shown
  <2> HIDE DEF both, one
  <2>5. both = [key |-> a, llm |-> b]
    BY <2>1, <2>2, <2>3
  <2>6. one = [key |-> key, llm |-> b]
    BY <2>1, <2>2, <2>4
  <2> QED BY <2>5, <2>6 DEF both, one
<1> HIDE DEF Llms
<1>9. "gemma_hosted" \in Llms /\ "anthropic_byok" \in Llms
  BY DEF Llms
<1>4. CASE k = "profile"
  <2>1. Updated(k, s) = s
    BY <1>4 DEF Updated
  <2>2. (k = "saveKey" \/ (s.key /\ k # "removeKey")) = key
    <3>1. k # "saveKey" /\ k # "removeKey"
      BY <1>4
    <3> QED BY <1>2, <3>1
  <2>3. (IF k \in {"saveKey", "toByok"} THEN "anthropic_byok"
         ELSE IF k = "profile" THEN s.llm ELSE "gemma_hosted") = llm
    BY <1>2, <1>4
  <2> QED BY <1>1, <2>1, <2>2, <2>3 DEF Shows
<1>5. CASE k = "saveKey"
  BY <1>3, <1>5, <1>9 DEF Updated, Shows
<1>6. CASE k = "removeKey"
  BY <1>3, <1>6, <1>9 DEF Updated, Shows
<1>7. CASE k = "toHosted"
  BY <1>2, <1>3, <1>7, <1>9 DEF Updated, Shows
<1>8. CASE k = "toByok"
  BY <1>2, <1>3, <1>8, <1>9 DEF Updated, Shows
<1> QED BY <1>4, <1>5, <1>6, <1>7, <1>8 DEF Kinds

LEMMA SiteShows ==
    ASSUME PlatformInv, Typed, ServerShown, NEW t \in Tabs, SiteStep(t), LeaveSettings(t)
    PROVE  ServerShown'
<1>1. loc \in Locations /\ put \in [Tabs -> [kind : Kinds, pc : Pcs]]
  BY DEF Typed, SiteTyped, PlatformInv
<1>2. t \notin OnSettings' /\ \A u \in Tabs \ {t} : loc'[u] = loc[u]
  <2>1. CASE HandleEmailSignup(t)
    BY <2>1 DEF HandleEmailSignup, OnSettings, Is
  <2>2. CASE ~HandleEmailSignup(t)
    <3>1. \E path, at : Goto(t, path, at) /\ ~(path = "settings" /\ at \in {"reading", "shown"})
      BY <2>2 DEF SiteStep, Request, Middleware, MiddlewareFails, HandleEmailLogin,
                  Callback, CallbackFails, HandleLogout, Arrives, DashboardPaths
    <3> QED BY <1>1, <3>1, GotoSettings
  <2> QED BY <2>1, <2>2
<1>3. \A u \in Tabs \ {t} : put'[u] = put[u] /\ shown'[u] = shown[u]
  BY DEF LeaveSettings
<1>4. put'[t].pc \notin {"sent", "answered"}
  BY <1>1 DEF LeaveSettings, NoPut
<1>5. behind \subseteq behind' \cup {t}
  BY DEF LeaveSettings
<1>6. UNCHANGED <<instance, apiKey>>
  BY DEF SiteStep, Request, Middleware, MiddlewareFails, HandleEmailLogin, HandleEmailSignup,
         Callback, CallbackFails, HandleLogout, database
<1> QED BY <1>2, <1>3, <1>4, <1>5, <1>6, ServerOfOne

LEMMA ChecksShow ==
    ASSUME Typed, ServerShown, NEW t \in Tabs, CheckStatus(t) \/ CheckStatusFails(t), UNCHANGED dash
    PROVE  ServerShown'
<1>1. \E path \in Paths \ {"settings"} : \E at : Goto(t, path, at)
  BY DEF CheckStatus, CheckStatusFails, Paths, DashboardPaths
<1>2. t \notin OnSettings
  BY DEF CheckStatus, CheckStatusFails, OnSettings, Is
<1>3. SettingsStay
  BY <1>1, <1>2, GoesElsewhere DEF Typed, SiteTyped
<1>4. UNCHANGED <<put, shown, behind, instance, apiKey>>
  BY DEF dash, CheckStatus, CheckStatusFails, database
<1>5. Has' = Has
  BY <1>4 DEF Has
<1> QED BY <1>3, <1>4, <1>5, ServerKept

\* The dashboard.
LEMMA RowShows ==
    ASSUME PlatformInv, Typed, ServerShown, NEW t \in Tabs,
           \/ FetchInstance(t) \/ FetchInstanceFails(t)
           \/ HandleRestart(t) \/ RefuseRestart(t) \/ Restarted(t) \/ RestartFails(t)
    PROVE  ServerShown'
<1>1. UNCHANGED <<put, shown, behind>>
  BY DEF FetchInstance, FetchInstanceFails, HandleRestart, RefuseRestart, Restarted,
         RestartFails, dash
<1>2. UNCHANGED loc \/ \E at : Goto(t, "dashboard", at) /\ t \notin OnSettings
  BY DEF FetchInstance, FetchInstanceFails, HandleRestart, RefuseRestart, Restarted,
         RestartFails, OnSettings, Is
<1>3. SettingsStay
  <2>1. "dashboard" \in Paths \ {"settings"}
    BY DEF Paths, DashboardPaths
  <2> QED BY <1>2, <2>1, LocStays, GoesElsewhere DEF Typed, SiteTyped
<1>4. instance # None => instance' # None /\ Has' = Has
  <2>1. CASE UNCHANGED <<instance, apiKey>>
    BY <2>1 DEF Has
  <2>2. CASE HandleRestart(t) \/ Restarted(t)
    <3>1. UNCHANGED apiKey /\ \E st \in Statuses : instance' = WithStatus(st)
      BY <2>2 DEF HandleRestart, Restarted, WithStatus, Statuses
    <3> QED BY <3>1, StatusSaysNothing DEF PlatformInv
  <2> QED BY <2>1, <2>2 DEF FetchInstance, FetchInstanceFails, RefuseRestart, RestartFails, database
<1> QED BY <1>1, <1>3, <1>4, ServerKept

LEMMA SettingsShow ==
    ASSUME PlatformInv, Typed, ServerShown, NEW t \in Tabs,
           \/ ReadRow(t) \/ LoadConfig(t) \/ RefuseLoad(t) \/ LoadConfigFails(t) \/ SubmitConfig(t)
           \/ UpdateConfig(t) \/ RefuseConfig(t) \/ UpdateConfigFails(t) \/ ConfigAnswered(t)
    PROVE  ServerShown'
<1>1. /\ put \in [Tabs -> [kind : Kinds, pc : Pcs]] /\ shown \in [Tabs -> Shown]
      /\ loc \in Locations /\ RowsTyped
  BY DEF PlatformInv, Typed, SiteTyped, DashTyped
<1>2. put[t].pc \in {"sent", "answered"} => Is(t, "settings", "shown")
  BY DEF ServerShown, AnswersAwaited
<1>3. t \in OnSettings \ behind => Agrees(t)
  BY DEF ServerShown
<1>4. UNCHANGED loc => OnSettings' = OnSettings /\ (Is(t, "settings", "shown") => Is(t, "settings", "shown")')
  BY DEF OnSettings, Is
<1>5. UNCHANGED <<instance, apiKey>> => Has' = Has
  BY DEF Has
<1>6. ASSUME ReadRow(t) \/ LoadConfig(t) \/ RefuseLoad(t) \/ LoadConfigFails(t)
      PROVE  /\ put[t].pc \notin {"sent", "answered"} /\ behind \subseteq behind'
             /\ UNCHANGED <<put, instance, apiKey>>
             /\ \A u \in Tabs \ {t} : shown'[u] = shown[u] /\ loc'[u] = loc[u]
  <2>1. Goto(t, "settings", "reading") \/ Goto(t, "settings", "shown")
    BY <1>6 DEF ReadRow, LoadConfig, RefuseLoad, LoadConfigFails
  <2>2. ~Is(t, "settings", "shown") /\ UNCHANGED <<put, instance, apiKey>>
    <3>1. Is(t, "settings", "loading") \/ Is(t, "settings", "reading")
      BY <1>6 DEF ReadRow, LoadConfig, RefuseLoad, LoadConfigFails
    <3>2. loc[t].at \in {"loading", "reading"}
      BY <3>1 DEF Is
    <3>3. UNCHANGED <<put, database>>
      BY <1>6 DEF ReadRow, LoadConfig, RefuseLoad, LoadConfigFails
    <3> QED BY <3>2, <3>3 DEF Is, database
  <2>3. behind \subseteq behind' /\ \A u \in Tabs \ {t} : shown'[u] = shown[u]
    BY <1>1, <1>6 DEF ReadRow, LoadConfig, RefuseLoad, LoadConfigFails
  <2> QED BY <1>1, <1>2, <2>1, <2>2, <2>3, GotoSettings
<1>7. CASE ReadRow(t)
  <2>1. loc'[t].at = "reading" /\ shown'[t].llm = instance.llm /\ instance # None
    <3>1. Goto(t, "settings", "reading") /\ shown' = [shown EXCEPT ![t].llm = instance.llm]
      BY <1>7 DEF ReadRow
    <3>2. shown'[t].llm = instance.llm
      BY <1>1, <3>1 DEF Shown
    <3>3. loc'[t] = [path |-> "settings", at |-> "reading"]
      BY <1>1, <3>1, GotoSettings
    <3> QED BY <1>7, <3>2, <3>3 DEF ReadRow
  <2>2. Agrees(t)'
    BY <1>6, <1>7, <2>1 DEF Agrees
  <2> QED BY <1>6, <1>7, <2>2, ServerOfOne
<1>8. CASE LoadConfig(t)
  <2>1. loc'[t].at = "shown" /\ shown' = [shown EXCEPT ![t].key = apiKey] /\ UNCHANGED behind
    <3>1. Goto(t, "settings", "shown")
      BY <1>8 DEF LoadConfig
    <3>2. loc'[t] = [path |-> "settings", at |-> "shown"]
      BY <1>1, <3>1, GotoSettings
    <3> QED BY <1>8, <3>2 DEF LoadConfig
  <2>2. ASSUME t \notin behind PROVE Agrees(t)'
    <3>1. loc[t].at = "reading" /\ t \in OnSettings
      BY <1>8 DEF LoadConfig, Is, OnSettings
    <3>2. instance # None /\ shown[t].llm = instance.llm
      BY <1>3, <2>2, <3>1 DEF Agrees
    <3>3. shown'[t].llm = instance.llm /\ shown'[t].key = apiKey /\ shown'[t] \in Shown
      BY <1>1, <2>1, <3>2 DEF Shown, RowsTyped
    <3>4. shown'[t] = Has
      BY <3>3 DEF Shown, Has
    <3> QED BY <1>5, <1>6, <1>8, <2>1, <3>2, <3>4 DEF Agrees
  <2> QED BY <1>6, <1>8, <2>1, <2>2, ServerOfOne
<1>14. CASE RefuseLoad(t) \/ LoadConfigFails(t)
  <2>1. behind' = behind \cup {t}
    BY <1>14 DEF RefuseLoad, LoadConfigFails
  <2> QED BY <1>6, <1>14, <2>1, ServerOfOne
<1>9. CASE SubmitConfig(t)
  <2>1. /\ Is(t, "settings", "shown") /\ put[t].pc = "idle"
        /\ UNCHANGED <<loc, instance, apiKey, shown, behind>>
    BY <1>9 DEF SubmitConfig, site, database
  <2>2. put'[t].pc = "sent" /\ \A u \in Tabs \ {t} : put'[u] = put[u]
    BY <1>1, <1>9 DEF SubmitConfig
  <2>3. t \in OnSettings' \ behind' => Agrees(t)'
    BY <1>3, <1>4, <1>5, <2>1, <2>2 DEF Agrees
  <2> QED BY <1>4, <2>1, <2>2, <2>3, ServerOfOne
<1>10. CASE UpdateConfig(t)
  <2> DEFINE new == Updated(put[t].kind, Has)
  <2>1. instance \in Instances
    BY <1>1, <1>10 DEF UpdateConfig, Refuses, RowsTyped
  <2>2. Has \in Shown
    BY <1>1, <2>1 DEF Has, Instances, Shown, RowsTyped
  <2>3. new = Shows(put[t].kind, Has) /\ new \in Shown
    BY <1>1, <2>2, UpdatedAsShown, ShowsTyped
  <2>4. instance' = [instance EXCEPT !.llm = new.llm] /\ apiKey' = new.key
    BY <1>10 DEF UpdateConfig
  <2>5. /\ put' = [put EXCEPT ![t] = Now(t, "answered")]
        /\ behind' = behind \cup (OnSettings \ (IF put[t].pc = "sent" THEN {t} ELSE {}))
        /\ UNCHANGED <<loc, shown>> /\ put[t].pc \in {"sent", "left"}
    BY <1>10 DEF UpdateConfig, Sent
  <2> HIDE DEF new
  <2>6. instance' \in Instances /\ apiKey' = new.key /\ instance'.llm = new.llm
    BY <2>1, <2>3, <2>4 DEF Instances, Shown
  <2>7. Has' = new
    BY <2>3, <2>6 DEF Has, Shown
  <2>8. OnSettings \ {t} \subseteq behind' /\ \A u \in Tabs \ {t} : put'[u] = put[u]
    BY <2>5
  <2>9. put'[t].pc \in {"sent", "answered"} => put[t].pc = "sent"
    BY <1>1, <2>5 DEF Now, NoPut
  <2>10. ASSUME t \in OnSettings \ behind' PROVE Agrees(t)'
    <3>1. put[t].pc = "sent" /\ t \notin behind /\ loc[t].at = "shown"
      BY <1>2, <2>5, <2>10 DEF Is
    <3>2. put'[t].pc = "answered" /\ put'[t].kind = put[t].kind
      BY <1>1, <2>5, <3>1 DEF Now
    <3>3. Has = shown[t]
      BY <1>3, <2>10, <3>1 DEF Agrees
    <3> QED BY <2>3, <2>5, <2>6, <2>7, <3>1, <3>2, <3>3, InstanceIsSome DEF Agrees
  <2> QED BY <1>2, <1>4, <2>5, <2>8, <2>9, <2>10, ServerOfOne
<1>11. CASE RefuseConfig(t)
  <2>1. put[t].pc \in {"sent", "left"} /\ UNCHANGED <<loc, instance, apiKey, shown, behind>>
    BY <1>11 DEF RefuseConfig, Sent, site, database
  <2>2. put'[t].pc = "idle" /\ \A u \in Tabs \ {t} : put'[u] = put[u]
    BY <1>1, <1>11 DEF RefuseConfig, NoPut
  <2>3. t \in OnSettings \ behind' => Agrees(t)'
    BY <1>3, <1>5, <2>1, <2>2 DEF Agrees
  <2> QED BY <1>4, <2>1, <2>2, <2>3, ServerOfOne
<1>12. CASE UpdateConfigFails(t)
  <2>1. /\ UNCHANGED <<loc, instance, apiKey, shown>>
        /\ behind' = IF put[t].pc = "left" THEN behind ELSE behind \cup {t}
    BY <1>12 DEF UpdateConfigFails, database
  <2>2. PICK pc \in {"answered", "idle"} : put' = [put EXCEPT ![t] = Now(t, pc)]
    BY <1>12 DEF UpdateConfigFails
  <2>3. /\ \A u \in Tabs \ {t} : put'[u] = put[u]
        /\ put'[t] = IF put[t].pc = "left" \/ pc = "idle" THEN NoPut ELSE [put[t] EXCEPT !.pc = pc]
    BY <1>1, <2>2 DEF Now
  <2>4. put'[t].pc \in {"sent", "answered"} => Is(t, "settings", "shown")
    <3>1. put[t].pc \in {"idle", "sent", "left", "answered"} /\ put[t].pc # "idle"
      BY <1>1, <1>12 DEF Pcs, UpdateConfigFails
    <3> QED BY <1>2, <2>3, <3>1 DEF NoPut
  <2>5. t \in OnSettings \ behind' => Agrees(t)'
    <3>1. ASSUME t \in OnSettings \ behind' PROVE put[t].pc = "left" /\ t \notin behind
      BY <2>1, <3>1
    <3>2. put[t].pc = "left" => put'[t].pc = "idle"
      BY <2>3 DEF NoPut
    <3> QED BY <1>3, <1>5, <2>1, <3>1, <3>2 DEF Agrees
  <2> QED BY <1>4, <2>1, <2>3, <2>4, <2>5, ServerOfOne
<1>13. CASE ConfigAnswered(t)
  <2>1. put[t].pc = "answered" /\ UNCHANGED <<loc, instance, apiKey, behind>>
    BY <1>13 DEF ConfigAnswered, site, database
  <2>2. put'[t].pc = "idle" /\ \A u \in Tabs \ {t} : put'[u] = put[u] /\ shown'[u] = shown[u]
    BY <1>1, <1>13 DEF ConfigAnswered, NoPut
  <2>3. shown'[t] = Shows(put[t].kind, shown[t])
    BY <1>1, <1>13 DEF ConfigAnswered
  <2>4. t \in OnSettings \ behind' => Agrees(t)'
    <3>1. loc[t].at = "shown"
      BY <1>2, <2>1 DEF Is
    <3> QED BY <1>3, <1>5, <2>1, <2>2, <2>3, <3>1 DEF Agrees
  <2> QED BY <1>4, <2>1, <2>2, <2>4, ServerOfOne
<1> QED BY <1>7, <1>8, <1>9, <1>10, <1>11, <1>12, <1>13, <1>14

\* The onboarding, but for what it configures.
LEMMA WizardShows ==
    ASSUME PlatformInv, Typed, ServerShown, NEW t \in WizardTabs, WizardStep(t), UNCHANGED dash
    PROVE  ServerShown'
<1>1. UNCHANGED <<put, shown, behind>> /\ t \in Tabs /\ loc \in Locations
  BY WizardTabsAreTabs DEF dash, Typed, SiteTyped
<1>2. CASE Step1ApiKey(t) \/ Step2Agent(t) \/ Step3ChannelSelect(t) \/ Step4ChannelSetup(t)
  <2>1. UNCHANGED site
    BY <1>2 DEF Step1ApiKey, Step2Agent, Step3ChannelSelect, Step4ChannelSetup, Becomes, Complete
  <2>2. SettingsStay /\ Has' = Has /\ UNCHANGED <<instance, apiKey>>
    BY <2>1, LocStays DEF site, database, Has
  <2> QED BY <1>1, <2>2, ServerKept
<1>3. CASE Step5Complete(t)
  <2>1. t \notin OnSettings
    BY <1>3 DEF Step5Complete, OnStep, OnSettings, Is
  <2>2. UNCHANGED loc \/ Goto(t, "dashboard", "requested")
    BY <1>3 DEF Step5Complete, site
  <2>3. SettingsStay
    <3>1. "dashboard" \in Paths \ {"settings"}
      BY DEF Paths, DashboardPaths
    <3> QED BY <1>1, <2>1, <2>2, <3>1, LocStays, GoesElsewhere
  <2>4. UNCHANGED <<instance, apiKey>>
    BY <1>3 DEF Step5Complete, site, database
  <2>5. Has' = Has
    BY <2>4 DEF Has
  <2> QED BY <1>1, <2>3, <2>4, <2>5, ServerKept
<1>4. CASE PostAuth(t) \/ PostCreate(t) \/ PostInsert(t) \/ PostComplete(t) \/ PostFails(t)
  <2>1. UNCHANGED <<loc, apiKey>>
    BY <1>4 DEF PostAuth, PostCreate, PostInsert, PostComplete, PostFails, Elsewhere, database
  <2>2. SettingsStay
    BY <2>1, LocStays
  <2>3. instance # None => instance' # None /\ Has' = Has
    <3>1. CASE instance = None
      BY <3>1
    <3>2. CASE UNCHANGED instance
      BY <2>1, <3>2 DEF Has
    <3>3. CASE instance' = WithStatus("error")
      BY <2>1, <3>3, StatusSaysNothing DEF PlatformInv, Statuses
    <3> QED BY <1>4, <3>1, <3>2, <3>3
            DEF PostAuth, PostCreate, PostInsert, PostComplete, PostFails, Inserts, database
  <2> QED BY <1>1, <2>2, <2>3, ServerKept
<1> QED BY <1>2, <1>3, <1>4 DEF WizardStep

\* What it configures changes what the server says only with a key; the pages
\* shown are behind from then on.
LEMMA ConfigureShows ==
    ASSUME PlatformInv, ServerShown, NEW t \in WizardTabs, ConfiguresUnheard(t)
    PROVE  ServerShown'
<1>1. UNCHANGED <<loc, put, shown>> /\ PostConfigure(t)
  BY DEF ConfiguresUnheard, PostConfigure, Elsewhere
<1>2. OnSettings' = OnSettings
  BY <1>1 DEF OnSettings
<1>3. CASE post[t].body.key
  <2>1. behind' = behind \cup OnSettings
    BY <1>3 DEF ConfiguresUnheard
  <2> QED BY <1>1, <1>2, <2>1 DEF ServerShown, AnswersAwaited, Is
<1>4. CASE ~post[t].body.key
  <2>1. /\ UNCHANGED behind /\ instance' = WithStatus("stopped")
        /\ apiKey' = (apiKey \/ post[t].body.key) /\ "stopped" \in Statuses
    BY <1>1, <1>4 DEF ConfiguresUnheard, PostConfigure, Statuses
  <2>2. UNCHANGED apiKey
    BY <1>4, <2>1 DEF PlatformInv, RowsTyped
  <2>3. instance # None => instance' # None /\ Has' = Has
    BY <2>1, <2>2, StatusSaysNothing DEF PlatformInv
  <2> QED BY <1>1, <2>1, <2>3, LocStays, ServerKept
<1> QED BY <1>3, <1>4

\* No page that is not behind is shown while there is no instance, nor after
\* a deletion.
LEMMA OtherClientShows ==
    ASSUME ServerShown, CreateElsewhere \/ DeleteInstance
    PROVE  ServerShown'
<1>1. UNCHANGED <<loc, put, shown>>
  BY DEF CreateElsewhere, DeleteInstance, Elsewhere, dash
<1>2. OnSettings' = OnSettings
  BY <1>1 DEF OnSettings
<1>3. CASE CreateElsewhere
  BY <1>1, <1>3, LocStays, ServerKept DEF CreateElsewhere, dash
<1>4. CASE DeleteInstance
  <2>1. behind' = behind \cup OnSettings
    BY <1>4 DEF DeleteInstance
  <2> QED BY <1>1, <1>2, <2>1 DEF ServerShown, AnswersAwaited, Is
<1> QED BY <1>3, <1>4

LEMMA ServerNext == PlatformInv /\ Typed /\ ServerShown /\ [Next]_vars => ServerShown'
<1> SUFFICES ASSUME PlatformInv, Typed, ServerShown, [Next]_vars PROVE ServerShown'
  OBVIOUS
<1>1. CASE UNCHANGED vars
  <2>1. UNCHANGED <<put, shown, behind, loc, instance, apiKey>>
    BY <1>1 DEF vars, site, database, dash
  <2>2. Has' = Has
    BY <2>1 DEF Has
  <2> QED BY <2>1, <2>2, LocStays, ServerKept
<1>2. ASSUME NEW t \in Tabs, DashStep(t) PROVE ServerShown'
  BY <1>2, RowShows, SettingsShow DEF DashStep
<1>3. ASSUME NEW s \in {"stopped", "running"}, ContainerTurns(s) PROVE ServerShown'
  <2>1. UNCHANGED <<put, shown, behind, loc, apiKey>> /\ instance' = WithStatus(s)
        /\ s \in Statuses
    BY <1>3 DEF ContainerTurns, dash, WithStatus, Statuses
  <2> QED BY <2>1, LocStays, StatusSaysNothing, ServerKept DEF PlatformInv
<1> QED BY <1>1, <1>2, <1>3, SiteShows, ChecksShow, WizardShows, ConfigureShows, OtherClientShows
        DEF Next

\* The settings page reckons what a change makes of key and model on its own;
\* in any number of tabs it is right, unless it could not load the row, a
\* request of it failed, or the server changed on behalf of another page.
THEOREM SettingsMatchServer == Spec => []ShownMatchesServer
<1>1. /\ Init => PlatformInv /\ Typed /\ ServerShown
      /\ PlatformInv /\ Typed /\ ServerShown /\ [Next]_vars => (PlatformInv /\ Typed /\ ServerShown)'
  BY PlatformInit, TypedInit, ServerInit, PlatformNext, TypedNext, ServerNext
<1>2. ServerShown => ShownMatchesServer
  <2> SUFFICES ASSUME ServerShown, NEW t \in Tabs \ behind, Is(t, "settings", "shown")
               PROVE  put[t].pc = "answered" \/ shown[t] = Has
    BY DEF ShownMatchesServer
  <2>1. t \in OnSettings /\ loc[t].at = "shown"
    BY DEF Is, OnSettings
  <2> QED BY <2>1 DEF ServerShown, Agrees
<1> QED BY <1>1, <1>2, PTL DEF Spec
===============================================================================
