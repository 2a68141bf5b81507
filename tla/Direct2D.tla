----------------------------- MODULE Direct2D -----------------------------
(***************************************************************************)
(* d2d1.dll (dll/win32/d2d1/d2d1.c): factories, and the render targets,       *)
(* bitmaps, brushes and geometries they lead to; and dwrite.dll               *)
(* (dll/win32/dwrite/dwrite.c): fonts, families, collections, text formats,   *)
(* layouts and factories.  Nothing is measured or drawn; layers, meshes,      *)
(* styles, gradient stops and the like are a fake handle and no object.        *)
(***************************************************************************)
EXTENDS ComObjects

\* GetFactory of every class: factory 0, whichever made the object, not counted, and also
\* when it is not in use.
GetFactory(c) == Held(c) # {} /\ HandOutUncounted("factory", 1)

\* Brushes, bitmaps and geometries: the other methods get and set numbers.
Brush2D == Unknown("brush") \/ GetFactory("brush")
Bitmap2D == Unknown("bitmap") \/ GetFactory("bitmap")
Geometry2D == Unknown("geometry") \/ GetFactory("geometry")

-----------------------------------------------------------------------------
\* Rt_CreateBitmap..., and the brushes: solid, of a bitmap, linear and radial.
CreateBitmap(t) == t \in Held("target") /\ Create("bitmap", "bitmap")
CreateBrush(t) == t \in Held("target") /\ \E kind \in {"solid", "gradient"} : Create("brush", kind)

\* Rt_CreateCompatibleRenderTarget: a target of its own, not drawing.
CreateCompatibleRenderTarget(t) == t \in Held("target") /\ Create("target", "idle")

\* Rt_BeginDraw and Rt_EndDraw; they are not paired by the code.
BeginDraw(t) == Change("target", t, "drawing")
EndDraw(t) == Change("target", t, "idle")

\* Rt_Draw*, Rt_Fill*, Rt_Set*: nothing is drawn, whether drawing or not.
RenderTarget2D ==
  \/ Unknown("target") \/ GetFactory("target")
  \/ \E t \in Held("target") : BeginDraw(t) \/ EndDraw(t)

-----------------------------------------------------------------------------
\* Fa_Create*Geometry, and Fa_Create*RenderTarget.
CreateGeometry(f) ==
  f \in Held("factory") /\ \E kind \in {"closed", "path"} : Create("geometry", kind)
CreateRenderTarget(f) == f \in Held("factory") /\ Create("target", "idle")

\* D2D1CreateFactory
D2D1CreateFactory == Create("factory", "factory")

D2D1Next ==
  /\ ~strayed
  /\ \/ Brush2D \/ Bitmap2D \/ Geometry2D \/ RenderTarget2D
     \/ \E t \in Held("target") :
          CreateBitmap(t) \/ CreateBrush(t) \/ CreateCompatibleRenderTarget(t)
     \/ Unknown("factory") \/ D2D1CreateFactory
     \/ \E f \in Held("factory") : CreateGeometry(f) \/ CreateRenderTarget(f)
-----------------------------------------------------------------------------
\* The references are exact until GetFactory hands out one that was never counted
\* (d2d1.c:314, 388, 470, 642).
D2D1Sound == LET none(c, i) == 0 IN CountsSound(none)
-----------------------------------------------------------------------------
(* dwrite.dll                                                                *)

\* Fnt_GetFontFamily: family 0, counted, also when it is not in use.
GetFontFamily == Held("font") # {} /\ HandOut("family", 1)
Font == Unknown("font") \/ GetFontFamily

\* Fam_GetFontCollection and Tf_GetFontCollection: collection 0 in the same way.
GetFontCollection(c) == Held(c) # {} /\ HandOut("collection", 1)

\* Fam_GetFont and Fam_GetFirstMatchingFont: a new font.
GetFont(f) == f \in Held("family") /\ Create("font", 0)
Family == Unknown("family") \/ GetFontCollection("family") \/ \E f \in Held("family") : GetFont(f)

\* Coll_GetFontFamily and Coll_GetFontFromFontFace: a new family, and a new font.
GetFamily(k) == k \in Held("collection") /\ Create("family", 0)
GetFontFromFontFace(k) == k \in Held("collection") /\ Create("font", 0)
Collection ==
  Unknown("collection") \/ \E k \in Held("collection") : GetFamily(k) \/ GetFontFromFontFace(k)

\* Tf_*: the size stands for what the format keeps.
Format == Unknown("format") \/ GetFontCollection("format")

-----------------------------------------------------------------------------
\* Tl_SetFontSize, Tl_SetFontWeight, Tl_SetFontStyle, Tl_SetFontFamilyName: the layout has
\* no font of its own, and changes the format it was made from, which others use too; or,
\* when that was given back since, the one that has its entry.
SetFontSize(l, size) ==
  LET f == pool["layout"][l].is IN
  /\ l \in Held("layout") /\ f # 0 /\ pool["format"][f].used
  /\ pool' = [pool EXCEPT !["format"][f].is = size]
  /\ UNCHANGED <<clientRefs, strayed>>

Layout == Unknown("layout") \/ \E l \in Held("layout"), size \in {"small", "large"} : SetFontSize(l, size)

-----------------------------------------------------------------------------
\* Fy_GetSystemFontCollection: collection 0 is made when it is not in use; otherwise it is
\* handed out, whoever made it.
GetSystemFontCollection(y) ==
  /\ y \in Held("factory")
  /\ IF pool["collection"][1].used THEN HandOut("collection", 1) ELSE Create("collection", 0)

CreateCustomFontCollection(y) == y \in Held("factory") /\ Create("collection", 0)
CreateTextFormat(y) == y \in Held("factory") /\ \E size \in {"small", "large"} : Create("format", size)

\* Fy_CreateTextLayout and Fy_CreateGdiCompatibleTextLayout: the format is not counted.
CreateTextLayout(y) ==
  y \in Held("factory") /\ \E f \in Held("format") \union {0} : Create("layout", f)

DWriteCreateFactory == Create("factory", 0)

DWriteNext ==
  /\ ~strayed
  /\ \/ Font \/ Family \/ Collection \/ Format \/ Layout
     \/ Unknown("factory") \/ DWriteCreateFactory
     \/ \E y \in Held("factory") :
          \/ GetSystemFontCollection(y) \/ CreateCustomFontCollection(y)
          \/ CreateTextFormat(y) \/ CreateTextLayout(y)
-----------------------------------------------------------------------------
\* The references are exact, until family or collection 0 is handed out while it is not in
\* use (dwrite.c:315, 404, 602).
DWriteSound == LET none(c, i) == 0 IN CountsSound(none)
=============================================================================
