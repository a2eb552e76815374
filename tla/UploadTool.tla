------------------------------ MODULE UploadTool ------------------------------
(***************************************************************************)
(* The upload tool (UploadToolDlg.cpp) and the uploading half of the web   *)
(* service client (CModelWebServiceClient.cpp), against a publish service  *)
(* that behaves as PublishStore says and that other clients use as well.   *)
(*                                                                         *)
(* A click on Upload starts a detached thread, which writes the id it is   *)
(* given, or -1, into an edit box when it is done.  A click on Create      *)
(* sends the ids that are in the boxes at that moment and blocks the       *)
(* window until the call returns.  A call is lost when the request or the  *)
(* reply is, or when the HTTP client's timeout comes first; the service    *)
(* may then still carry it out.                                            *)
(*                                                                         *)
(* A definition X_Word before X is a defect of X that no run or proof      *)
(* uses: the properties are tried against it.                              *)
(***************************************************************************)
EXTENDS Integers, Sequences

CONSTANTS
  Data, Owners, Hashes,  \* as in PublishStore
  NoData, NoKey,         \* no contents, no subscription key
  TypedIds,              \* bound: ids the user types into a box
  MaxCalls,              \* bound: clicks on Upload or Create per launch
  MaxItems               \* bound: models, and advertisements, published

ASSUME ToolAssumption ==
  /\ NoData \notin Data
  /\ NoKey \notin Hashes
  /\ TypedIds \subseteq Int
  /\ MaxCalls \in Nat
  /\ MaxItems \in Nat

VARIABLES
  shelf, banners, keys,  \* the service's catalogue
  calls,    \* the calls made by this process, in the order of the clicks
  open,     \* is the tool running?
  modelBox, \* IDC_EDIT_MODEL_ID
  adBox,    \* IDC_EDIT_AD_ID
  keyBox,   \* IDC_EDIT_SUBS_ID
  shown,    \* is IDC_EDIT_SUBS_ID visible?
  blocked   \* the create_subs call the window waits for

catalogue == <<shelf, banners, keys>>
boxes     == <<modelBox, adBox, keyBox, shown>>
vars      == <<catalogue, calls, open, boxes, blocked>>

Store == INSTANCE PublishStore

NoId  == -1  \* what UploadModelThread and UploadAdThread start from
Empty == 0   \* _wtol of an empty box
Ids   == Nat \union {NoId} \union TypedIds

\* A call: what was asked, what the service did and what the tool was told.
\* An upload uses data, create_subs uses model and ad.  The client waits, is
\* given the result or has failed, shows the result, or is over with the call.
Call == [op : {"upload_model", "upload_ad", "create_subs"}, owner : Owners,
         data : Data \union {NoData}, model : Ids, ad : Ids,
         done : BOOLEAN, result : Nat \union Hashes \union {NoId},
         client : {"waiting", "given", "failed", "shown", "over"}]

Init ==
  /\ Store!Init
  /\ calls = <<>>
  /\ open = FALSE
  /\ modelBox = Empty /\ adBox = Empty
  /\ keyBox = NoKey /\ shown = FALSE
  /\ blocked = 0

-----------------------------------------------------------------------------
(* The tool's window *)

Responsive == open /\ blocked = 0

Open ==
  /\ ~ open
  /\ open' = TRUE
  /\ UNCHANGED <<catalogue, calls, boxes, blocked>>

\* The tool exits or dies and its threads with it.  What the service still does
\* of its calls is from now on done for another client.
Close ==
  /\ open
  /\ open' = FALSE
  /\ calls' = <<>>
  /\ blocked' = 0
  /\ modelBox' = Empty /\ adBox' = Empty
  /\ keyBox' = NoKey /\ shown' = FALSE
  /\ UNCHANGED catalogue

\* Both boxes are editable.
TypeId ==
  /\ Responsive
  /\ \E id \in TypedIds : \/ modelBox' = id /\ UNCHANGED adBox
                          \/ adBox' = id /\ UNCHANGED modelBox
  /\ UNCHANGED <<catalogue, calls, open, keyBox, shown, blocked>>

Send(op, owner, data, model, ad) ==
  /\ Len(calls) < MaxCalls
  /\ calls' = Append(calls,
       [op |-> op, owner |-> owner, data |-> data, model |-> model, ad |-> ad,
        done |-> FALSE, result |-> NoId, client |-> "waiting"])

\* OnBnClickedBtnModelUpload, OnBnClickedBtnAdUpload: nothing stops the user
\* from starting an upload while another is under way.
ClickUpload ==
  /\ Responsive
  /\ \E op \in {"upload_model", "upload_ad"}, o \in Owners, d \in Data :
       Send(op, o, d, Empty, Empty)
  /\ UNCHANGED <<catalogue, open, boxes, blocked>>

\* OnBnClickedBtnCreateSubs hides the key of the call before.
KeyHidden_Forgotten == shown
KeyHidden == FALSE

ClickCreate ==
  /\ Responsive
  /\ \E o \in Owners : Send("create_subs", o, NoData, modelBox, adBox)
  /\ shown' = KeyHidden
  /\ blocked' = Len(calls) + 1
  /\ UNCHANGED <<catalogue, open, modelBox, adBox, keyBox>>

-----------------------------------------------------------------------------
(* The service.  A call that never reaches it, or that it refuses for a wrong *)
(* password, an unknown id or an exception, is never done.                    *)

Carries(n, op) == /\ n \in DOMAIN calls
                  /\ calls[n].op = op
                  /\ ~ calls[n].done

Serve(n, result) ==
  /\ calls' = [calls EXCEPT ![n].done = TRUE, ![n].result = result]
  /\ UNCHANGED <<open, boxes, blocked>>

ServeModel(n) ==
  /\ Carries(n, "upload_model")
  /\ Len(shelf) < MaxItems
  /\ Store!PublishModel
  /\ shelf'[Len(shelf')] = calls[n].data
  /\ Serve(n, Len(shelf'))

ServeAd(n) ==
  /\ Carries(n, "upload_ad")
  /\ Len(banners) < MaxItems
  /\ Store!PublishAd
  /\ banners'[Len(banners')] = [data |-> calls[n].data, url |-> calls[n].data,
                                owner |-> calls[n].owner]
  /\ Serve(n, Len(banners'))

Asked(n) == [owner |-> calls[n].owner, model |-> calls[n].model,
             ad |-> calls[n].ad]

ServeSubs(n) ==
  /\ Carries(n, "create_subs")
  /\ Store!Subscribe
  /\ \E h \in DOMAIN keys' \ DOMAIN keys :
       keys'[h] = Asked(n) /\ Serve(n, h)

\* Other clients.
Elsewhere ==
  /\ Store!Next
  /\ Len(shelf') <= MaxItems /\ Len(banners') <= MaxItems
  /\ UNCHANGED <<calls, open, boxes, blocked>>

-----------------------------------------------------------------------------
(* The client *)

\* A call succeeds only with the service's answer, and may fail at any time.
Outcomes_NoTimeout(n) == IF calls[n].done THEN {"given", "failed"} ELSE {}
Outcomes(n) == IF calls[n].done THEN {"given", "failed"} ELSE {"failed"}

\* UploadModel, UploadAd or CreateSubscription returns.
Return(n) ==
  /\ n \in DOMAIN calls
  /\ calls[n].client = "waiting"
  /\ \E out \in Outcomes(n) : calls' = [calls EXCEPT ![n].client = out]
  /\ UNCHANGED <<catalogue, open, boxes, blocked>>

Returned(n, op) == /\ n \in DOMAIN calls
                   /\ calls[n].op = op
                   /\ calls[n].client \in {"given", "failed"}
Given_Unchecked(n) == TRUE
Given(n) == calls[n].client = "given"
Finish(n) ==
  calls' = [calls EXCEPT ![n].client = IF Given(n) THEN "shown" ELSE "over"]
IdOf(n) == IF Given(n) THEN calls[n].result ELSE NoId

\* SetDlgItemText from a thread waits for the window to be responsive.
MyModelCallback(n) ==
  /\ Returned(n, "upload_model") /\ Responsive
  /\ modelBox' = IdOf(n)
  /\ Finish(n)
  /\ UNCHANGED <<catalogue, open, adBox, keyBox, shown, blocked>>

\* The box MyAdCallback writes to.
AdIdBox_Model(id) == modelBox' = id /\ UNCHANGED adBox
AdIdBox(id) == adBox' = id /\ UNCHANGED modelBox
MyAdCallback(n) ==
  /\ Returned(n, "upload_ad") /\ Responsive
  /\ AdIdBox(IdOf(n))
  /\ Finish(n)
  /\ UNCHANGED <<catalogue, open, keyBox, shown, blocked>>

\* OnBnClickedBtnCreateSubs goes on: the key is shown if there is one.
ShowKey(n) ==
  /\ Returned(n, "create_subs")
  /\ IF Given(n) THEN keyBox' = calls[n].result /\ shown' = TRUE
                 ELSE UNCHANGED <<keyBox, shown>>
  /\ Finish(n)
  /\ blocked' = 0
  /\ UNCHANGED <<catalogue, open, modelBox, adBox>>

-----------------------------------------------------------------------------
Service(n) == ServeModel(n) \/ ServeAd(n) \/ ServeSubs(n)
Client(n)  == Return(n) \/ MyModelCallback(n) \/ MyAdCallback(n) \/ ShowKey(n)

Next == \/ Open \/ Close \/ TypeId \/ ClickUpload \/ ClickCreate \/ Elsewhere
        \/ \E n \in 1..MaxCalls : Service(n) \/ Client(n)

Spec == Init /\ [][Next]_vars

\* A call ends at the latest with the HTTP client's timeout.  The message of a
\* callback is sent, not posted: the window takes it before any other as soon as
\* it is responsive.  The service owes no answer and the user no click.
FairSpec == /\ Spec
            /\ \A n \in 1..MaxCalls : /\ WF_vars(Return(n))
                                      /\ SF_vars(MyModelCallback(n))
                                      /\ SF_vars(MyAdCallback(n))
                                      /\ WF_vars(ShowKey(n))

-----------------------------------------------------------------------------
(* Properties *)

\* Every variable has its type.
TypeOK ==
  /\ Store!TypeOK
  /\ calls \in Seq(Call)
  /\ open \in BOOLEAN
  /\ modelBox \in Ids
  /\ adBox \in Ids
  /\ keyBox \in Hashes \union {NoKey}
  /\ shown \in BOOLEAN
  /\ blocked \in 0..Len(calls)

\* Call n gave the tool the id.
Gave(n, op, id) == /\ calls[n].op = op
                   /\ calls[n].client = "shown"
                   /\ calls[n].result = id

Untold == TypedIds \union {NoId, Empty}

\* An id in a box that the user did not type names what a call of this tool
\* uploaded, whatever calls were lost, were answered late or in another order,
\* and whatever other clients published meanwhile.
BoxesTrue ==
  /\ modelBox \in Untold
       \/ \E n \in DOMAIN calls : /\ Gave(n, "upload_model", modelBox)
                                 /\ shelf[modelBox] = calls[n].data
  /\ adBox \in Untold
       \/ \E n \in DOMAIN calls : /\ Gave(n, "upload_ad", adBox)
                                 /\ banners[adBox].data = calls[n].data
                                 /\ banners[adBox].owner = calls[n].owner

\* A key the tool shows is the one the last click on Create obtained, and it
\* denotes the owner and the ids that were in the boxes at that click; after a
\* click that failed no key is shown, not even that of an earlier click.
KeyShownIsLast ==
  LET creates == {n \in DOMAIN calls : calls[n].op = "create_subs"}
  IN  shown => \E n \in creates :
                 /\ \A k \in creates : k <= n
                 /\ Gave(n, "create_subs", keyBox)
                 /\ keys[keyBox] = Asked(n)

Pending(n) == n \in DOMAIN calls /\ calls[n].client \notin {"shown", "over"}

\* Every call ends by showing its outcome, or with the tool: a blocked window
\* delays the callbacks and never stops them.
CallsEnd == \A n \in 1..MaxCalls : Pending(n) ~> ~ Pending(n)
=============================================================================
