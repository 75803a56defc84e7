CONSTANTS
  accept = accept xmethod = xmethod cookie = cookie cookie2 = cookie2
  c1 = c1 c2 = c2 d1 = d1 d2 = d2 l1 = l1
  Items <- SomeItems
  Keep <- SomeKept
  MaxLen = 3
  Counts <- SomeCounts
  MaxStops = 2
  Characters <- SomeCharacters
  Names <- SomeNames
  Values <- SomeValues
  Queries <- SomeQueries
  UrlEdits = 2
  Keys <- SomeKeys
  Safelisted = {accept}
  Override = {xmethod}
  Cookie = cookie
  ForbiddenResponse = {cookie, cookie2}
  Plain = plain
  Trace = trace
  HeaderEdits = 2
  FieldNames <- SomeFields
  FileNames <- SomeFileNames
  Texts <- SomeTexts
  FormEdits = 2
  Controlled = {c1, c2}
  Combined = {d1, d2}
  Listeners = {l1}
  AbortEdits = 4
  Documents <- SomeDocuments
  Selectors <- SomeSelectors
  MaxDepth = 3
  MaxNodes = 4
SPECIFICATION LibSpec
INVARIANTS CombinatorsExact ParamsMatchUrl HeadersExact FormsSurvive AnyFollowsSources SelectorsMeanIt
PROPERTIES SelectionsSound
CHECK_DEADLOCK FALSE
