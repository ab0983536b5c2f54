---------------------------- MODULE MCDocuments ----------------------------
(* Whatever keeps documents, for TLC: the dataset cache of MCDatasetSync, or *)
(* one of the components of the backend service or of the API service, or    *)
(* the installer with the folder it fills, chosen at the start. Their        *)
(* documents and files are disjoint, so a run of one at a time shows all     *)
(* they do.                                                                  *)
EXTENDS MCDatasetSync

CONSTANTS
  None,                                        \* nobody, nothing
  User, Sale, MaxPings,                        \* of Billing and SignIn
  Name, Attempt, Page, TTL, MaxClock,
  Teacher, Student, Class, Stream,             \* of Classrooms
  Scene, Chat, Order,                          \* of ProjectStore
  Release, Archive, Program, OwnFile,          \* of Installer
  ApiScene, ApiContext, MaxTrained, NoModel,   \* of ApiProjects
  ApiTeacher, ApiStudent, ApiClass, Lesson,    \* of ApiClassrooms
  Request, Batch,                              \* of AudioBatch
  Load, HashAlgo, ApiVersion,                  \* of ApiDatasets
  MaxChanges, MaxQueue, MaxCrashes, MaxCuts    \* bounds: changes, frames, restarts

\* Nobody is an account, and nothing the id of a sale or a name.
ASSUME NoneAssumption ==
  None \notin User \cup Sale \cup Name \cup Class \cup Teacher \cup Student

\* Attempts live for some time; bounds are numbers.
ASSUME BoundAssumption == TTL \in Nat /\ MaxClock \in Nat /\ MaxChanges \in Nat

\* per_audio_batch of the configuration is at least 1.
ASSUME BatchAssumption == Batch \in Nat \ {0}

\* A context's document has another suffix than that of the directory of contexts.
ASSUME ContextAssumption == "meta.doc" \notin ApiContext

\* What stands for no model is none of its versions.
ASSUME ModelAssumption == MaxTrained \in Nat /\ NoModel \notin 0..MaxTrained

\* A dataset that is trained on has rows, its sides have as many, and no block is empty.
ASSUME DatasetAssumption ==
  \A v \in ApiVersion, s \in {"inputs", "outputs"} :
    /\ v[s] \in Seq({v[s][i] : i \in DOMAIN v[s]})
    /\ Len(v[s]) = Len(v["inputs"]) /\ Len(v[s]) > 0
    /\ \A i \in DOMAIN v[s] : v[s][i] # ""

\* validate_scene_id: the id of a project is of digits.
ASSUME SceneAssumption ==
  \A s \in Scene :
    s \in Seq({s[i] : i \in DOMAIN s}) /\ s # <<>> /\ \A i \in DOMAIN s : s[i] # "/"

\* The files of the archives and of the user are in the folder, and the user's own is in no
\* archive; what tells her files is no version.
Archived == UNION {{Archive[v][i] : i \in DOMAIN Archive[v]} : v \in Release}
AllPaths == Archived \cup {Program, OwnFile}
ASSUME ReleaseAssumption ==
  /\ \A v \in Release :
       /\ Archive[v] \in Seq({Archive[v][i] : i \in DOMAIN Archive[v]})
       /\ \A i \in DOMAIN Archive[v] : Archive[v][i] # OwnFile
  /\ \A p \in AllPaths : p \in Seq({p[i] : i \in DOMAIN p}) /\ p # <<>>
  /\ "user" \notin Release

VARIABLES
  part,    \* the component that runs
  bSold, bPing, bLicense, bEvent, bEntitlement, bTodo, bHonoured, bCrashes,
  sClock, sAttempt, sPoll, sProfile, sOwner, sPage, sTodo, sCrashes,
  cConfig, cMeta, cStudents, cStream, cTodo, cCrashes,
  pDb, pTodo, pAbout, pTorn, pCrashes,
  iScreen, iVersion, iPc, iLeft, iDirs, iFiles, iMarker, iManifest, iTools, iLinks,
  iRegistered, iUn, iRest, iRunning, iCut,
  oDb, oCache, oBusy, oUsing, oDeleted,
  lConfig, lMeta, lStudents, lStream, lEnds,
  aRequest, aQueue, aTask, aBatch, aAnswer, aMet,
  dEntry, dLoad, dMixed

bVars == <<bSold, bPing, bLicense, bEvent, bEntitlement, bTodo, bHonoured, bCrashes>>
sVars == <<sClock, sAttempt, sPoll, sProfile, sOwner, sPage, sTodo, sCrashes>>
cVars == <<cConfig, cMeta, cStudents, cStream, cTodo, cCrashes>>
pVars == <<pDb, pTodo, pAbout, pTorn, pCrashes>>
iVars == <<iScreen, iVersion, iPc, iLeft, iDirs, iFiles, iMarker, iManifest, iTools, iLinks,
           iRegistered, iUn, iRest, iRunning, iCut>>
oVars == <<oDb, oCache, oBusy, oUsing, oDeleted>>
lVars == <<lConfig, lMeta, lStudents, lStream, lEnds>>
aVars == <<aRequest, aQueue, aTask, aBatch, aAnswer, aMet>>
dVars == <<dEntry, dLoad, dMixed>>

Part == {"sync", "billing", "signin", "classrooms", "projects", "installer",
         "api projects", "api classrooms", "audio", "api datasets"}

B == INSTANCE Billing WITH
  Account <- User,
  sold <- bSold, ping <- bPing, license <- bLicense, event <- bEvent,
  entitlement <- bEntitlement, todo <- bTodo, honoured <- bHonoured, crashes <- bCrashes

S == INSTANCE SignIn WITH
  Account <- User,
  clock <- sClock, attempt <- sAttempt, poll <- sPoll, profile <- sProfile,
  owner <- sOwner, page <- sPage, todo <- sTodo, crashes <- sCrashes

C == INSTANCE Classrooms WITH
  config <- cConfig, meta <- cMeta, students <- cStudents, stream <- cStream,
  todo <- cTodo, crashes <- cCrashes

\* The id of one project begins that of another.
MCScene == {<<"1">>, <<"1", "0">>}
P == INSTANCE ProjectStore WITH
  MaxCrashes <- MaxCuts,
  db <- pDb, todo <- pTodo, about <- pAbout, torn <- pTorn, crashes <- pCrashes

\* The store has its keys in the order of their characters.
ASSUME OrderAssumption ==
  Order \in Seq(P!Key) /\ \A k \in P!Key : \E n \in DOMAIN Order : Order[n] = k
MCNames == <<<<"chats", "/", "0.doc">>, <<"chats", "/", "metas.doc">>,
             <<"contexts", "/", "meta.doc">>, <<"data.scn">>, <<"meta.doc">>>>
MCOrder == [n \in 1..5 |-> <<"projects", "/", "1", "/">> \o MCNames[n]]
           \o [n \in 1..5 |-> <<"projects", "/", "1", "0", "/">> \o MCNames[n]]

\* Two versions of the program that share a file, the program itself.
MCProgram == <<"exe">>
MCArchive == [v1 |-> <<Program, <<"d", "e", "a">>>>, v2 |-> <<<<"d", "b">>, Program>>]
MCOwnFile == <<"d", "own">>
I == INSTANCE Installer WITH
  Version <- Release, Payload <- Archive, Exe <- Program, Own <- OwnFile,
  screen <- iScreen, version <- iVersion, pc <- iPc, left <- iLeft, dirs <- iDirs,
  files <- iFiles, marker <- iMarker, manifest <- iManifest, tools <- iTools, links <- iLinks,
  registered <- iRegistered, un <- iUn, rest <- iRest, running <- iRunning, cut <- iCut

O == INSTANCE ApiProjects WITH
  Scene <- ApiScene, Context <- ApiContext, None <- NoModel,
  db <- oDb, cache <- oCache, busy <- oBusy, using <- oUsing, deleted <- oDeleted

L == INSTANCE ApiClassrooms WITH
  Teacher <- ApiTeacher, Student <- ApiStudent, Class <- ApiClass,
  config <- lConfig, meta <- lMeta, students <- lStudents, stream <- lStream, ends <- lEnds

A == INSTANCE AudioBatch WITH
  request <- aRequest, queue <- aQueue, task <- aTask, batch <- aBatch,
  answer <- aAnswer, met <- aMet

\* A dataset that grows and changes its first row, and two trainings on it.
Columns(x, y) == [inputs |-> x, outputs |-> y]
MCApiVersion == {Columns(<<"x">>, <<"y">>), Columns(<<"y", "x">>, <<"y", "z">>)}
D == INSTANCE ApiDatasets WITH
  Algo <- HashAlgo, Empty <- "", Version <- ApiVersion,
  entry <- dEntry, load <- dLoad, mixed <- dMixed

StoreInit ==
  /\ part \in Part
  /\ Init /\ B!Init /\ S!Init /\ C!Init /\ P!Init /\ I!Init /\ O!Init /\ L!Init /\ A!Init
  /\ D!Init

StoreNext ==
  /\ part' = part
  /\ \/ part = "sync" /\ Next
        /\ UNCHANGED <<bVars, sVars, cVars, pVars, iVars, oVars, lVars, aVars, dVars>>
     \/ part = "billing" /\ B!Next
        /\ UNCHANGED <<vars, sVars, cVars, pVars, iVars, oVars, lVars, aVars, dVars>>
     \/ part = "signin" /\ S!Next
        /\ UNCHANGED <<vars, bVars, cVars, pVars, iVars, oVars, lVars, aVars, dVars>>
     \/ part = "classrooms" /\ C!Next
        /\ UNCHANGED <<vars, bVars, sVars, pVars, iVars, oVars, lVars, aVars, dVars>>
     \/ part = "projects" /\ P!Next
        /\ UNCHANGED <<vars, bVars, sVars, cVars, iVars, oVars, lVars, aVars, dVars>>
     \/ part = "installer" /\ I!Next
        /\ UNCHANGED <<vars, bVars, sVars, cVars, pVars, oVars, lVars, aVars, dVars>>
     \/ part = "api projects" /\ O!Next
        /\ UNCHANGED <<vars, bVars, sVars, cVars, pVars, iVars, lVars, aVars, dVars>>
     \/ part = "api classrooms" /\ L!Next
        /\ UNCHANGED <<vars, bVars, sVars, cVars, pVars, iVars, oVars, aVars, dVars>>
     \/ part = "audio" /\ A!Next
        /\ UNCHANGED <<vars, bVars, sVars, cVars, pVars, iVars, oVars, lVars, dVars>>
     \/ part = "api datasets" /\ D!Next
        /\ UNCHANGED <<vars, bVars, sVars, cVars, pVars, iVars, oVars, lVars, aVars>>

StoreSpec == StoreInit /\ [][StoreNext]_<<part, vars, bVars, sVars, cVars, pVars, iVars,
                                         oVars, lVars, aVars, dVars>>

-----------------------------------------------------------------------------
\* The documents of every component have their types.
DocumentsTypeOK ==
  /\ B!BillingTypeOK /\ S!SignInTypeOK /\ C!ClassroomsTypeOK /\ P!ProjectStoreTypeOK
  /\ I!InstallerTypeOK /\ O!ApiProjectsTypeOK /\ L!ApiClassroomsTypeOK /\ A!AudioBatchTypeOK
  /\ D!ApiDatasetsTypeOK

\* Billing: keys, entitlements and withdrawals last.
BillingHolds == B!BillingHolds

\* Sign-in: devices are woken, lost attempts stay lost, names have one bearer.
SignInHolds == S!SignInHolds

\* Classrooms: streams show what is; teacher and members are kept.
ClassroomsHold == C!ClassroomsHold

\* Projects: what is listed opens; a delete takes its own.
ProjectsHold == P!ProjectsHold

\* Installer: the user's files are kept, and the folder can be used again.
InstallerHolds == I!InstallerHolds

\* API service: models are served as stored, streams follow their class, whoever is
\* answered gets its own text, and a training is on the dataset as it was asked for.
ApiHolds == O!ServedAsStored /\ L!ApiClassroomsHold /\ A!AudioServed /\ D!DatasetsHold
=============================================================================
