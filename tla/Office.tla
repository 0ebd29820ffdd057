------------------------------- MODULE Office -------------------------------
(***************************************************************************)
(* The parts of the system that share no state with the fleet, the clock,  *)
(* the scores or the stock, nor with one another in what they promise:     *)
(* evidence, categories, delivery details, lists, views, upkeep and the    *)
(* previews of scores.  A behaviour is a behaviour of one of them, while   *)
(* the others rest.                                                        *)
(***************************************************************************)
EXTENDS Evidence, Categories, Deliveries, Lists, Views, Upkeep, Previews

VARIABLE part

office == <<part, evidence, labels, deliveries, lists, views, upkeep, previews>>

(* The variables of a part that rests.                                     *)
NoEvidence   == /\ duty = Nil /\ assigned = Nil /\ bytes = Nil /\ object = Nil /\ inspection = Nil
                /\ document = Nil /\ attempt = Nil /\ excused = Nil /\ form = Nil
NoCategories == category = Nil /\ label = Nil /\ work = Nil
NoDeliveries == detail = Nil /\ panel = Nil /\ saving = Nil
NoLists      == /\ pages = Nil /\ controls = Nil /\ timer = Nil /\ latest = Nil /\ request = Nil
                /\ list = Nil /\ loading = Nil /\ error = Nil /\ act = Nil
NoViews      == role = Nil /\ tour = Nil /\ rows = Nil /\ ask = Nil
NoUpkeep     == /\ target = Nil /\ kept = Nil /\ archives = Nil /\ marker = Nil /\ lock = Nil
                /\ release = Nil /\ commits = Nil /\ client = Nil /\ op = Nil
NoPreviews   == /\ address = Nil /\ code = Nil /\ reader = Nil /\ active = Nil /\ chosen = Nil
                /\ book = Nil /\ draft = Nil /\ confirmed = Nil /\ busy = Nil /\ sent = Nil

OfficeInit ==
    /\ part \in {"evidence", "categories", "deliveries", "lists", "views", "upkeep", "previews"}
    /\ IF part = "evidence"   THEN EvidenceInit   ELSE NoEvidence
    /\ IF part = "categories" THEN CategoriesInit ELSE NoCategories
    /\ IF part = "deliveries" THEN DeliveriesInit ELSE NoDeliveries
    /\ IF part = "lists"      THEN ListsInit      ELSE NoLists
    /\ IF part = "views"      THEN ViewsInit      ELSE NoViews
    /\ IF part = "upkeep"     THEN UpkeepInit     ELSE NoUpkeep
    /\ IF part = "previews"   THEN PreviewsInit   ELSE NoPreviews

OfficeNext ==
    /\ UNCHANGED part
    /\ \/ part = "evidence" /\ EvidenceNext
            /\ UNCHANGED <<labels, deliveries, lists, views, upkeep, previews>>
       \/ part = "categories" /\ CategoriesNext
            /\ UNCHANGED <<evidence, deliveries, lists, views, upkeep, previews>>
       \/ part = "deliveries" /\ DeliveriesNext
            /\ UNCHANGED <<evidence, labels, lists, views, upkeep, previews>>
       \/ part = "lists" /\ ListsNext
            /\ UNCHANGED <<evidence, labels, deliveries, views, upkeep, previews>>
       \/ part = "views" /\ ViewsNext
            /\ UNCHANGED <<evidence, labels, deliveries, lists, upkeep, previews>>
       \/ part = "upkeep" /\ UpkeepNext
            /\ UNCHANGED <<evidence, labels, deliveries, lists, views, previews>>
       \/ part = "previews" /\ PreviewsNext
            /\ UNCHANGED <<evidence, labels, deliveries, lists, views, upkeep>>

OfficeSpec == OfficeInit /\ [][OfficeNext]_office

-----------------------------------------------------------------------------
(* What each part promises; the modules say what it means.                 *)

(* Uploads and inspections: the store holds what the rows name.            *)
StoreMatches == part = "evidence" => BytesMatchRows

(* One inspection per visit and one renewal per document, whatever is sent *)
(* again or at the same time.                                              *)
OneReport == part = "evidence" => ReportedOnce /\ RenewedOnce

(* Inspections and photos are booked on duty only.                         *)
BookedOnDuty == [][part = "evidence" => BooksOnDuty]_office

(* Labels of vehicles follow their category.                               *)
LabelsFollow == [][part = "categories" => Follows]_office

(* Revisions of a delivery detail form one line.                           *)
LinearHistory == part = "deliveries" => OneLine

(* Nobody waits for a list that is not coming.                             *)
LoadingEnds == part = "lists" => LoadingTold

(* Nobody is shown more than one role and tour of theirs entitle to.       *)
OwnOnly == part = "views" => OwnRowsOnly

(* What a list offers can be opened.                                       *)
ListedOpens == part = "views" => OffersOpen

(* A score preview tells what the file says.                               *)
PreviewTells == part = "previews" => AsTheFileSays

(* A stopped command loses nothing, and leaves no half database in use.    *)
Recoverable == part = "upkeep" => NothingLost

(* No database is made anew over an old one, none migrated without backup. *)
Guarded == [][part = "upkeep" => Guards]_office
=============================================================================
