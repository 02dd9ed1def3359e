-------------------------------- MODULE Web ---------------------------------
(***************************************************************************)
(* The pages of the business in the browsers of several people: a customer *)
(* books at the public page, another one changes an appointment from a     *)
(* link or at the portal, and an owner works at the dashboard.  They meet  *)
(* in the agenda and in the days that are open, and the public page and    *)
(* the dashboard in the token that the browser stores.                     *)
(***************************************************************************)
EXTENDS Booking, Links, Landing

webVars == <<siteVars, bookingVars, linksVars, dashboardVars, landingVars>>

WebInit == SiteInit /\ BookingInit /\ LinksInit /\ DashboardInit
           /\ LandingInit

WebNext ==
  \/ BookingNext /\ UNCHANGED <<linksVars, dashboardVars, landingVars>>
  \/ LinksNext /\ UNCHANGED <<bookingVars, dashboardVars, landingVars>>
  \/ DashboardNext /\ UNCHANGED <<bookingVars, linksVars, landingVars>>
  \/ LandingNext /\ UNCHANGED <<bookingVars, linksVars>>

WebSpec == WebInit /\ [][WebNext]_webVars

-----------------------------------------------------------------------------
(* What a page sends is what it showed when it was sent: the day of a      *)
(* booking, of a move from the page of an appointment and of the forms of  *)
(* the dashboard, and values of the setup no older than those shown, but   *)
(* for the windows that each of the pages leaves open.                     *)
SentAsShown == BookedAsChosen /\ MovedAsChosen /\ FormsSendWhatTheyShow

(* What the customers' pages show is what the server has, whatever order   *)
(* the answers come in, once nothing is on its way: at the page of an      *)
(* appointment that nobody else changes, and at the portal of a customer   *)
(* who waits for each answer.                                              *)
CustomersSeeTheTruth == LinkTellsTruth /\ PortalIsCurrent

(* What the dashboard shows belongs together: the data is that of whoever  *)
(* is signed in, and the details and the draft of a customer are those of  *)
(* the one selected, but for what arrives from an earlier session or       *)
(* selection.                                                              *)
ShownBelongsTogether == OwnDataShown /\ DetailIsSelected
=============================================================================
