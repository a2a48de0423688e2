-------------------------- MODULE MCBrowserWindow ---------------------------
(* A page that refreshes itself, one that goes to it after a while, or is  *)
(* redirected to it, and one that is not fetched but launched.             *)
EXTENDS BrowserWindow, TLC

CONSTANTS news, splash, mail

MCUrls == {news, splash, mail, Blank}

MCRefreshTo == (news :> news) @@ (splash :> news) @@ (mail :> None) @@ (Blank :> None)

MCRedirectTo == [url \in MCUrls |-> IF url = splash THEN news ELSE None]

MCNoRedirects == [url \in MCUrls |-> None]
=============================================================================
