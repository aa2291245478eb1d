----------------------------- MODULE WidgetText -----------------------------
(* What a widget says, and which of the board's readers looks where for it:  *)
(* the renderer (registry.py), the search (_widget_text_fields), and the     *)
(* label of a region (_infer_label).  A text is the set of its words; no     *)
(* text (None) and the empty text are both {}, as the code's "or" has it.    *)
EXTENDS WidgetTree

-----------------------------------------------------------------------------
(* The schemas: the attributes of each kind that hold a text, and the kinds  *)
(* whose style has a font size.  w.says maps the attributes to texts.        *)

TextAttributes ==
    [kind \in {"sticky note", "shape", "text", "image", "comment", "icon", "area", "table",
               "table cell", "arrow", "file"} |->
        CASE kind \in {"sticky note", "shape"} -> {"title", "text", "html_text"}
          [] kind = "text" -> {"title", "text"}
          [] kind = "image" -> {"title", "caption"}
          [] kind = "comment" -> {"title", "message"}
          [] OTHER -> {"title"}]

Kinds == DOMAIN TextAttributes

NoFontSize == 0   \* font_size is None, which only a text's may be

\* getattr(w, name, None) or ""
Attribute(w, name) == IF name \in DOMAIN w.says THEN w.says[name] ELSE {}

OrElse(first, second) == IF first # {} THEN first ELSE second

-----------------------------------------------------------------------------
(* The registry: the role attribute and the inner text of a rendered widget. *)

\* _font_size_to_role
FontSizeToRole(size) ==
    IF size >= 80 THEN "heading" ELSE IF size >= 50 THEN "label" ELSE "caption"

RoleOf(w) ==
    IF w.kind \in {"sticky note", "shape", "text", "area"} /\ w.font_size # NoFontSize
    THEN FontSizeToRole(w.font_size) ELSE "none"

ContentOf(w) ==
    OrElse(Attribute(w, "html_text"),
        OrElse(Attribute(w, "text"),
            OrElse(Attribute(w, "caption"), Attribute(w, "message"))))

-----------------------------------------------------------------------------
(* The search.                                                               *)

\* Mutation: the title is not searched.
TextFieldsButTitle(w) == {Attribute(w, name) : name \in {"text", "html_text"}}

\* _widget_text_fields
TextFields(w) == {Attribute(w, name) : name \in {"text", "html_text", "title"}}

Anything == "anything"   \* no query, or no widget_type, is given

\* A widget is found by its type, if one is asked for, and by a word, if there
\* is a query, in one of its text fields.
Matches(w, query, kind) ==
    /\ kind \in {Anything, w.kind}
    /\ query = Anything \/ \E text \in TextFields(w) : query \in text

-----------------------------------------------------------------------------
(* The label of a region.                                                    *)

\* _HEADING_FONT_SIZE, a number of its own.
HeadingFontSize == 80

\* Mutation: the size of a heading is exceeded, not reached.
IsLargerThanHeading(w) ==
    w.kind \in {"sticky note", "shape", "text"} /\ w.font_size > HeadingFontSize

IsHeading(w) ==
    /\ w.kind \in {"sticky note", "shape", "text"}
    /\ w.font_size # NoFontSize /\ w.font_size >= HeadingFontSize

TextOrTitle(w) == OrElse(Attribute(w, "text"), Attribute(w, "title"))

\* _infer_label over the children of a group: the first heading, whatever it
\* says, or else the first child that says something.
InferLabel(children) ==
    LET heading == SelectInSeq(children, IsHeading)
        talking == SelectInSeq(children, LAMBDA w : TextOrTitle(w) # {})
    IN IF heading # 0 THEN TextOrTitle(children[heading])
       ELSE IF talking # 0 THEN TextOrTitle(children[talking]) ELSE {}
=============================================================================
