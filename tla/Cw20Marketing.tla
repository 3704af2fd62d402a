---------------------------- MODULE Cw20Marketing ----------------------------
(***************************************************************************)
(* What the cw20-base contract tells wallets to show of the token: texts,  *)
(* the account that may change them, and a logo, which is stored apart     *)
(* from the information that says of which kind it is.                     *)
(***************************************************************************)
EXTENDS Integers

CONSTANTS
    Editors,          \* accounts that may be named to change the information
    Texts, Blank,     \* texts, and one of white space only
    Nothing,          \* None
    LOGO_SIZE_CAP     \* 5 * 1024 in the code

(***************************************************************************)
(* A logo is an address of a picture or a picture, an SVG or a PNG: what   *)
(* of it is checked is whether it begins as such a file must and its size. *)
(***************************************************************************)
Logo == [kind : {"url"}]
          \cup [kind : {"svg", "png"}, header : BOOLEAN, size : Nat]
SomeLogos == [kind : {"url"}]
          \cup [kind : {"svg", "png"}, header : BOOLEAN,
                size : {LOGO_SIZE_CAP, LOGO_SIZE_CAP + 1}]
LogoInfo == {"url", "embedded"}
MarketingInfo ==
    [project : Texts \cup {Blank, Nothing}, description : Texts \cup {Blank, Nothing},
     marketing : Editors \cup {Nothing}, logo : LogoInfo \cup {Nothing}]

ASSUME MarketingAssumption ==
    /\ Nothing \notin MarketingInfo \cup LogoInfo \cup Logo
    /\ LOGO_SIZE_CAP \in Nat

VARIABLES
    marketing_info,   \* MARKETING_INFO
    logo              \* LOGO

marketingVars == <<marketing_info, logo>>

VerifyLogo(l) == l.kind # "url" => l.header /\ l.size <= LOGO_SIZE_CAP

InfoOf(l) == IF l.kind = "url" THEN "url" ELSE "embedded"

\* instantiate: information with or without a logo, or none.  Blank texts are
\* stored as they are.
MarketingInit ==
    \/ marketing_info = Nothing /\ logo = Nothing
    \/ /\ logo \in {l \in SomeLogos : VerifyLogo(l)} \cup {Nothing}
       /\ marketing_info \in
            {info \in MarketingInfo :
               info.logo = IF logo = Nothing THEN Nothing ELSE InfoOf(logo)}

MayEdit(s) ==
    /\ marketing_info # Nothing
    /\ marketing_info.marketing # Nothing
    /\ marketing_info.marketing = s

\* A field of a message: not given, blank to take it back, or a new value.
Field(old, given) ==
    IF given = Nothing THEN old ELSE IF given = Blank THEN Nothing ELSE given

SaysNoText(info) ==              \* mutant: does not look at the logo
    {info.project, info.description, info.marketing} = {Nothing}
SaysNothing(info) ==
    {info.project, info.description, info.marketing, info.logo} = {Nothing}

\* Information that says nothing any more is removed.
UpdateMarketing(s, project, description, marketing) ==
    LET info == [marketing_info EXCEPT
                   !.project = Field(@, project),
                   !.description = Field(@, description),
                   !.marketing = Field(@, marketing)]
    IN  /\ MayEdit(s)
        /\ marketing_info' = IF SaysNothing(info) THEN Nothing ELSE info
        /\ UNCHANGED logo

UploadLogo(s, l) ==
    /\ MayEdit(s)
    /\ VerifyLogo(l)
    /\ logo' = l
    /\ marketing_info' = [marketing_info EXCEPT !.logo = InfoOf(l)]

MarketingNext ==
    \E s \in Editors :
       \/ \E project, description \in Texts \cup {Blank, Nothing},
             marketing \in Editors \cup {Blank, Nothing} :
             UpdateMarketing(s, project, description, marketing)
       \/ \E l \in SomeLogos : UploadLogo(s, l)

MarketingSpec == MarketingInit /\ [][MarketingNext]_marketingVars

-----------------------------------------------------------------------------
(***************************************************************************)
(* Properties.                                                             *)
(***************************************************************************)

\* What DownloadLogo answers with: only a picture can be downloaded.
Downloadable == logo # Nothing /\ logo.kind # "url"

ToldLogo == IF marketing_info = Nothing THEN Nothing ELSE marketing_info.logo

\* A wallet that is told of an embedded logo can download one, whoever edits
\* what and even when all texts are taken back; it is told of no other, and what
\* it downloads has passed the checks on pictures.
LogoAsTold ==
    /\ ToldLogo = "embedded" <=> Downloadable
    /\ ToldLogo = Nothing <=> logo = Nothing
    /\ Downloadable => logo.header /\ logo.size <= LOGO_SIZE_CAP

==============================================================================
