CONSTANTS
  None = None
  Host <- MCHost
  Url <- MCUrl
  Cookie <- MCCookie
  HeaderEntry <- MCHeaderEntry
SPECIFICATION Spec
INVARIANTS
  CacheIsFresh
PROPERTIES
  CookiesReturn
  HeadersReturn
