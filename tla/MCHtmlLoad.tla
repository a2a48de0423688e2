---------------------------- MODULE MCHtmlLoad -----------------------------
(* A page with a document and two images in it; one image is speculative.  *)
(* The page has a linked sheet and a <style> element, the document may be  *)
(* in quirks mode.                                                         *)
EXTENDS HtmlLoad, TLC

CONSTANTS page, child, img, pic, spec, base, style, quirks, link

MCParent == (child :> page) @@ (img :> child) @@ (pic :> page) @@ (spec :> page)
MCHas == (page :> {base, link, style}) @@ (child :> {base, quirks})
=============================================================================
