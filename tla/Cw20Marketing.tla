--------------------------- MODULE Cw20Marketing ---------------------------
(***************************************************************************)
(* The marketing information of contracts/cw20-base: what a wallet shows   *)
(* of the token, and its logo, which is stored apart.  One account, named  *)
(* in the information itself, may change it, and may give that up.         *)
(* The names of this module and of Cw20Base, which models the rest of the  *)
(* same contract, are kept distinct: their proofs extend both.             *)
(***************************************************************************)
EXTENDS Naturals

CONSTANTS Accounts,      \* the accounts
          Texts,     \* project names and descriptions
          Logos,     \* logos that are uploaded
          Absent,      \* a field, or an entry, that is not there
          Blank,     \* a text of spaces, as an argument
          SizeCap    \* LOGO_SIZE_CAP

(* A logo has a kind, its URL or image, the size of the image, and whether *)
(* the image begins as its kind has to: <?xml ... ?> or the PNG header.    *)
Kinds == {"url", "svg", "png"}

(* What MARKETING_INFO may hold, and what it says of the logo. *)
LogoInfos == [kind: {"embedded"}] \cup [kind: {"url"}, content: {l.content : l \in Logos}]
Entries == [project: Texts \cup {Blank, Absent}, description: Texts \cup {Blank, Absent},
            marketing: Accounts \cup {Absent}, logo: LogoInfos \cup {Absent}]

ASSUME MarketingAssumption ==
  /\ Absent \notin Logos \cup LogoInfos \cup Entries
  /\ Absent \notin Accounts \cup Texts /\ Blank \notin Accounts \cup Texts \cup {Absent}
  /\ \A l \in Logos : /\ l.kind \in Kinds /\ l.size \in Nat /\ l.header \in BOOLEAN
                      /\ DOMAIN l = {"kind", "content", "size", "header"}

VARIABLES info,   \* MARKETING_INFO
          logo    \* LOGO

marketing_vars == <<info, logo>>

(* Mutant of verify_logo: the size is not looked at. *)
any_size(l) == l.kind = "url" \/ l.header

verify_logo(l) == l.kind = "url" \/ (l.header /\ l.size <= SizeCap)

(* Mutant of LogoInfo: whatever is stored is taken for an image. *)
always_embedded(l) == [kind |-> "embedded"]

LogoInfo(l) ==
  IF l.kind = "url" THEN [kind |-> "url", content |-> l.content]
  ELSE [kind |-> "embedded"]

(* Texts are stored here as they are given, also a blank one.              *)
instantiate_marketing(project, description, marketing, l) ==
  /\ l # Absent => verify_logo(l)
  /\ info = [project |-> project, description |-> description, marketing |-> marketing,
             logo |-> IF l = Absent THEN Absent ELSE LogoInfo(l)]
  /\ logo = l

MarketingInit ==
  \/ info = Absent /\ logo = Absent
  \/ \E project, description \in Texts \cup {Blank, Absent}, marketing \in Accounts \cup {Absent},
        l \in Logos \cup {Absent} : instantiate_marketing(project, description, marketing, l)

-----------------------------------------------------------------------------
MayChange(sender) == info # Absent /\ info.marketing = sender

(* A field not given stays, a blank one is cleared. *)
Updated(field, given) ==
  IF given = Absent THEN field ELSE IF given = Blank THEN Absent ELSE given

(* Mutant of IsEmpty: the logo is forgotten. *)
no_text(i) == \A field \in DOMAIN i \ {"logo"} : i[field] = Absent

IsEmpty(i) == \A field \in DOMAIN i : i[field] = Absent

execute_update_marketing(sender, project, description, marketing) ==
  LET new == [info EXCEPT !.project = Updated(@, project),
                          !.description = Updated(@, description),
                          !.marketing = Updated(@, marketing)]
  IN  /\ MayChange(sender)
      /\ info' = IF IsEmpty(new) THEN Absent ELSE new
      /\ logo' = logo

execute_upload_logo(sender, l) ==
  /\ verify_logo(l)
  /\ MayChange(sender)
  /\ logo' = l
  /\ info' = [info EXCEPT !.logo = LogoInfo(l)]

MarketingNext ==
  \/ \E sender \in Accounts, project, description \in Texts \cup {Blank, Absent},
        marketing \in Accounts \cup {Blank, Absent} :
       execute_update_marketing(sender, project, description, marketing)
  \/ \E sender \in Accounts, l \in Logos : execute_upload_logo(sender, l)

MarketingSpec == MarketingInit /\ [][MarketingNext]_marketing_vars

-----------------------------------------------------------------------------
(* MarketingInfo answers with empty fields if there is no entry. *)
query_marketing_info ==
  IF info # Absent THEN info
  ELSE [project |-> Absent, description |-> Absent, marketing |-> Absent, logo |-> Absent]

(* DownloadLogo answers with an image, or finds none. *)
query_download_logo == IF logo = Absent THEN Absent ELSE IF logo.kind = "url" THEN Absent ELSE logo

(* The information and the logo are stored apart, but a client may rely on *)
(* what MarketingInfo says: there is an image to download exactly if it    *)
(* says so, of an admissible size and kind, and a URL is that of the logo  *)
(* stored; no removal of the entry leaves a logo behind.                   *)
LogoAsAnnounced ==
  LET said == query_marketing_info.logo
  IN  /\ said \in [kind: {"embedded"}] <=> query_download_logo # Absent
      /\ said \notin {Absent, [kind |-> "embedded"]} => logo.content = said.content
      /\ said = Absent => logo = Absent
      /\ query_download_logo # Absent =>
            query_download_logo.size <= SizeCap /\ query_download_logo.header
=============================================================================
