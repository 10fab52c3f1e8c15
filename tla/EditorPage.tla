----------------------------- MODULE EditorPage -----------------------------
(***************************************************************************)
(* The modules of the page of the script editor, for the loader to put     *)
(* together.  What editor.main.js bundles besides the modules of the       *)
(* languages is edcore, the editor and its API, and shiftCommand, which    *)
(* monaco-vim.js names; a bundled module has no script of its own.         *)
(***************************************************************************)
EXTENDS ModuleLoader

CONSTANTS styles, edcore, shiftCommand, basicLanguages, cssLanguage, htmlLanguage,
          jsonLanguage, typescriptLanguage, editorMain, monacoVim, lua

Contributions ==
  <<basicLanguages, cssLanguage, htmlLanguage, jsonLanguage, typescriptLanguage>>

\* editor.main.css, by the plugin vs/css.
PageResources == {styles}

PageModules ==
  PageResources \union ToSet(Contributions)
  \union {edcore, shiftCommand, editorMain, monacoVim, lua}

Define(name, deps) == [name |-> name, deps |-> deps]

\* Every module by its name, after those it depends on.
EditorMain ==
  <<Define(edcore, <<styles>>), Define(shiftCommand, <<>>)>>
  \o [i \in DOMAIN Contributions |-> Define(Contributions[i], <<edcore>>)]
  \o <<Define(editorMain, <<edcore>> \o Contributions)>>

\* One module, without a name.
MonacoVim == <<Define(Anonymous, <<editorMain, shiftCommand>>)>>

LuaLanguage == <<Define(lua, <<>>)>>

PageContents == [s \in PageModules |->
  CASE s = editorMain -> EditorMain
    [] s = monacoVim -> MonacoVim
    [] s = lua -> LuaLanguage
    [] OTHER -> <<>>]

\* monaco-vim.js has a script tag, although the page requires it, too.
PageTags == <<editorMain, monacoVim>>

\* The page's call, and that for the language of the editor.
PageRequires == <<<<editorMain, monacoVim>>, <<lua>>>>
=============================================================================
