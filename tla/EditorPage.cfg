SPECIFICATION FairSpec
CONSTANTS
  styles = styles
  edcore = edcore
  shiftCommand = shiftCommand
  basicLanguages = basicLanguages
  cssLanguage = cssLanguage
  htmlLanguage = htmlLanguage
  jsonLanguage = jsonLanguage
  typescriptLanguage = typescriptLanguage
  editorMain = editorMain
  monacoVim = monacoVim
  lua = lua
  Anonymous = Anonymous
  Modules <- PageModules
  Resources <- PageResources
  Contents <- PageContents
  Tags <- PageTags
  Requires <- PageRequires
INVARIANTS
  TypeOK
  FactoriesInOrder
  OwnDefinition
PROPERTIES
  RequiresAnswered
CHECK_DEADLOCK FALSE
