\* Two tabs, three logins among them, one reload; one provider is not
\* configured, one page is not ours (a missing ?next= is treated like it).
CONSTANTS
  Tabs = {t1, t2}
  Providers <- Both
  Enabled <- Only
  Pages <- AllPages
  SafePages <- OurPages
  NoPage = NoPage
  Home = "home"
  MaxLogins = 3
  MaxReloads = 1
SPECIFICATION LiveSpec
INVARIANTS CookiesExact StateCheckExact
PROPERTIES LandsWhereStarted CallbackAnswered
